---- MODULE Spec2Model ----
(***************************************************************************)
(* The test-suite pipeline of testing_throughmcp: the orchestrator          *)
(* (src/orchestrator.py, TestSuiteOrchestrator.run_pipeline) and the stage  *)
(* agents it chains (test analyzer, test generator, test executor, result   *)
(* analyzer), with the artifact files they write.                           *)
(*                                                                          *)
(* The generative collaborator (crew.kickoff), the file system's refusal    *)
(* of a write, the wall clock and the dashboard launch are the              *)
(* environment: each is a nondeterministic choice inside the step that      *)
(* consults it.  Every datetime.now() of the code reads `clock`, a count    *)
(* of whole seconds (the file names are formatted to the second).           *)
(***************************************************************************)
EXTENDS Integers, Sequences, FiniteSets, TLC

\* ---------------------------------------------------------------- bounds
\* The wall clock runs over the seconds 0..MaxClock.
MaxClock == 1
\* Calls made one after the other: pipeline runs and direct agent calls.
MaxRuns == 2

\* ------------------------------------------------------------- vocabulary
\* Source files that exist on disk; every other source path is missing.
ExistingSources == {"baseline.json", "app_model.md"}

\* config.get("output_dir", "src/data/output")
DefaultOutputDir == "src/data/output"

\* ResultAnalyzerAgent.__init__(output_dir="data/output")
AnalyzerOutputDir == "data/output"

Kinds == {"gap_analysis", "generated_tests", "execution_report", "analysis_summary"}

\* An artifact path is <<directory, kind prefix of the file name, timestamp>>.
NoPath == <<"", "", -1>>

\* What is known of a path that holds no file.
NoFile == [body |-> "none", run |-> 0, n |-> 0]

\* The four stages, in the order of run_pipeline's phases.
StageOrder == <<"gap_analysis", "generation", "execution", "analysis">>

StageIndex(s) == CHOOSE i \in 1..Len(StageOrder) : StageOrder[i] = s

NoConfig == <<>>

NoReport == [st |-> "unset", id |-> -1]

NoReturn ==
    [set |-> FALSE, gap_analysis |-> "unset", generated_tests |-> "unset",
     execution_report |-> NoReport, analysis_summary |-> "None"]

NoCall == [agent |-> "none", keys |-> {}, required |-> {}, fx |-> {}, outcome |-> "none"]

VARIABLES
    clock,            \* seconds of wall clock
    run,              \* number of calls started so far; the current one
    caller,           \* "orchestrator" | "direct" | "none"
    pc,               \* where run_pipeline (or the direct caller) stands
    config,           \* run_pipeline's config
    inputs,           \* the inputs dict of the agent call in progress
    call,             \* the agent call in progress, or the last one
    events,           \* this run's stage calls and how each ended
    gap_analysis,     \* run_pipeline's local of that name
    generated_tests,  \* run_pipeline's local of that name
    gen_file,         \* generator_inputs["output_file"]
    execution_report, \* run_pipeline's local of that name
    analysis_summary, \* run_pipeline's local of that name
    fs,               \* the artifact files
    wfail,            \* stages whose artifact write was refused in this run
    dash,             \* how the dashboard launch went
    returned          \* what run_pipeline returned

\* One call of a function studied on its own (the specifications after Spec).
VARIABLES
    result_text,      \* str(generation_result): the generator's reply, as lexemes
    validation_text,  \* str(validation_result): the validator's reply, as lexemes
    validate_tests,   \* inputs.get("validate_tests", False) of that call
    final_tests,      \* what TestGeneratorAgent.execute returns, once it has
    parsed_result,    \* what TestAnalyzerAgent.execute makes of the same reply
    pytest,           \* the test run that run_tests.py starts and what it leaves
    normalized,       \* what run_tests.TestExecutorAgent.execute returns, once it has
    raw_results,      \* inputs["raw_results"] of analyze_results.py, a text
    analysis,         \* what analyze_results returns, once it has
    report,           \* the execution report ResultAnalyzerAgent.analyze loads
    result_str,       \* what the analyst's crew.kickoff() does
    analyzed          \* what ResultAnalyzerAgent.analyze returns, once it has

\* The variables of the pipeline.
pipeline ==
    <<clock, run, caller, pc, config, inputs, call, events, gap_analysis,
      generated_tests, gen_file, execution_report, analysis_summary, fs,
      wfail, dash, returned>>

\* The variables of the generator's extraction.
extraction ==
    <<result_text, validation_text, validate_tests, final_tests, parsed_result>>

\* The variables of the report normalizer.
normalizer == <<pytest, normalized>>

\* The variables of the two statistics engines.
statistics == <<raw_results, analysis, report, result_str, analyzed>>

\* The variables the pipeline leaves alone.
pure == <<extraction, normalizer, statistics>>

vars == <<pipeline, pure>>

\* ---------------------------------------------------------------- helpers
\* Path(p).exists(): fs maps the paths that hold a file.
Exists(f, p) == p \in DOMAIN f

\* The file at p: its body, the run that wrote it last, the times written.
File(f, p) == IF p \in DOMAIN f THEN f[p] ELSE NoFile

\* write_text / json.dump to p: the file now holds body, written in run r;
\* a file already there is replaced.
Write(f, p, body, r) ==
    [q \in DOMAIN f \cup {p} |->
        IF q = p THEN [body |-> body, run |-> r, n |-> File(f, p).n + 1] ELSE f[q]]

\* Path(file_path).read_text() of a source file: its content, or nothing.
ReadSource(p) == IF p \in ExistingSources THEN "content" ELSE "nothing"

\* inputs.get(k, default)
Get(d, k, default) == IF k \in DOMAIN d THEN d[k] ELSE default

\* A dict restricted to some of its keys.
Restrict(d, ks) == [k \in ks |-> d[k]]

\* The recognized options of the pipeline configuration.
ConfigKeys == {"baseline_tests_path", "app_model_path", "output_dir", "validate_tests"}

\* The configurations a caller may hand to run_pipeline: every option
\* given, or all but one of those that name no directory.
Configs ==
    {Restrict(c, ks) :
        c \in [baseline_tests_path : {"baseline.json", "nofile"},
               app_model_path      : {"app_model.md", "nofile"},
               output_dir          : {"out"},
               validate_tests      : {TRUE, FALSE}],
        ks \in {ConfigKeys} \cup {ConfigKeys \ {k} : k \in ConfigKeys \ {"output_dir"}}}

\* MCPAgent.validate_inputs: TRUE when no required field is missing;
\* the code raises ValueError otherwise.
validate_inputs(d, required_fields) ==
    {field \in required_fields : field \notin DOMAIN d} = {}

Log(kind, stage) == Append(events, <<kind, stage>>)

\* The agent call begins: nothing read, asked or written yet.
Begin(agent, d, required) ==
    [agent |-> agent, keys |-> DOMAIN d, required |-> required,
     fx |-> {}, outcome |-> "running"]

\* The agent call ends with outcome o after the effects e.
End(o, e) == [call EXCEPT !.fx = e, !.outcome = o]

\* Where the caller stands once the agent call has returned / raised.
AfterReturn(next) == IF caller = "orchestrator" THEN next ELSE "done"

\* ------------------------------------------------------------------- Init
\* No pipeline run and no agent call has been made.
PipelineIdle ==
    /\ clock = 0
    /\ run = 0
    /\ caller = "none"
    /\ pc = "idle"
    /\ config = NoConfig
    /\ inputs = <<>>
    /\ call = NoCall
    /\ events = <<>>
    /\ gap_analysis = "unset"
    /\ generated_tests = "unset"
    /\ gen_file = NoPath
    /\ execution_report = NoReport
    /\ analysis_summary = "None"
    /\ fs = <<>>
    /\ wfail = {}
    /\ dash = "none"
    /\ returned = NoReturn

\* No function is being studied on its own.
NoText == <<>>

NotReturned == [t |-> "unset", v |-> <<>>]

ExtractionIdle ==
    /\ result_text = NoText
    /\ validation_text = NoText
    /\ validate_tests = FALSE
    /\ final_tests = NotReturned
    /\ parsed_result = NotReturned

\* No test run has been started.
NoRun == [suite_dir |-> "none", returncode |-> 0, junit |-> "none", testcases |-> <<>>]

NotNormalized == [outcome |-> "none", results |-> <<>>]

NormalizerIdle ==
    /\ pytest = NoRun
    /\ normalized = NotNormalized

\* Nothing has been analyzed.
NotAnalyzed == [outcome |-> "none"]

NoReply == [raises |-> FALSE, text |-> <<>>]

StatisticsIdle ==
    /\ raw_results = NoText
    /\ analysis = NotAnalyzed
    /\ report = [t |-> "unset", v |-> <<>>]
    /\ result_str = NoReply
    /\ analyzed = NotAnalyzed

Init == PipelineIdle /\ ExtractionIdle /\ NormalizerIdle /\ StatisticsIdle

\* A new call starts with fresh locals; the files stay.
FreshLocals ==
    /\ gap_analysis' = "unset"
    /\ generated_tests' = "unset"
    /\ gen_file' = NoPath
    /\ execution_report' = NoReport
    /\ analysis_summary' = "None"
    /\ wfail' = {}
    /\ dash' = "none"
    /\ returned' = NoReturn

Resting == pc \in {"idle", "done", "raised"}

\* ------------------------------------------------------------ wall clock
Tick ==
    /\ clock < MaxClock
    /\ clock' = clock + 1
    /\ UNCHANGED <<run, caller, pc, config, inputs, call, events, gap_analysis,
                   generated_tests, gen_file, execution_report,
                   analysis_summary, fs, wfail, dash, returned>>

\* ------------------------------------------------------------ run_pipeline
\* Phase 1, up to the await: analyzer_inputs is built from config (a missing
\* key is a KeyError out of run_pipeline) and analyzer.execute is called.
StartRun ==
    /\ Resting
    /\ run < MaxRuns
    /\ \E cfg \in Configs :
        /\ config' = cfg
        /\ run' = run + 1
        /\ caller' = "orchestrator"
        /\ FreshLocals
        /\ IF {"baseline_tests_path", "app_model_path"} \subseteq DOMAIN cfg
           THEN /\ inputs' = Restrict(cfg, {"baseline_tests_path", "app_model_path"})
                /\ call' = Begin("analyzer", inputs', {"baseline_tests_path", "app_model_path"})
                /\ events' = <<<<"call", "gap_analysis">>>>
                /\ pc' = "await_gap"
           ELSE /\ inputs' = <<>>
                /\ call' = NoCall
                /\ events' = <<>>
                /\ pc' = "raised"
    /\ UNCHANGED <<clock, fs>>

\* TestAnalyzerAgent.execute.
AnalyzerExecute ==
    /\ call.agent = "analyzer"
    /\ call.outcome = "running"
    /\ IF ~validate_inputs(inputs, {"baseline_tests_path", "app_model_path"})
       THEN /\ call' = End("ValueError", {})
            /\ events' = Log("raise", "gap_analysis")
            /\ pc' = "raised"
            /\ UNCHANGED gap_analysis
       ELSE IF \/ ReadSource(inputs.baseline_tests_path) = "nothing"
               \/ ReadSource(inputs.app_model_path) = "nothing"
       THEN /\ call' = End("error", {"read"})
            /\ events' = Log("error", "gap_analysis")
            /\ pc' = AfterReturn("p1_save")
            /\ gap_analysis' = IF caller = "orchestrator" THEN "error" ELSE gap_analysis
       ELSE \E reply \in {"raises", "report", "empty"} :
            IF reply = "raises"
            THEN /\ call' = End("exception", {"read", "llm"})
                 /\ events' = Log("raise", "gap_analysis")
                 /\ pc' = "raised"
                 /\ UNCHANGED gap_analysis
            ELSE /\ call' = End("ok", {"read", "llm"})
                 /\ events' = Log("ok", "gap_analysis")
                 /\ pc' = AfterReturn("p1_save")
                 /\ gap_analysis' = IF caller = "orchestrator" THEN reply ELSE gap_analysis
    /\ UNCHANGED <<clock, run, caller, config, inputs, generated_tests, gen_file,
                   execution_report, analysis_summary, fs, wfail, dash, returned>>

\* output_dir = Path(config.get("output_dir", "src/data/output"))
OutputDir == Get(config, "output_dir", DefaultOutputDir)

\* Phase 1 after the await: the gap analysis is written to
\* gap_analysis_<now>.json, whatever the analyzer returned.
SaveGapAnalysis ==
    /\ pc = "p1_save"
    /\ \E refused \in BOOLEAN :
        IF refused
        THEN /\ pc' = "raised"
             /\ wfail' = wfail \cup {<<"gap_analysis", "controller">>}
             /\ UNCHANGED fs
        ELSE /\ pc' = "p2_call"
             /\ fs' = Write(fs, <<OutputDir, "gap_analysis", clock>>, gap_analysis, run)
             /\ UNCHANGED wfail
    /\ UNCHANGED <<clock, run, caller, config, inputs, call, events, gap_analysis,
                   generated_tests, gen_file, execution_report,
                   analysis_summary, dash, returned>>

\* CallGenerator as it would be if phase 1 did not await the analyzer.
CallGenerator_NotAwaited ==
    /\ pc \in {"await_gap", "p2_call"}
    /\ gen_file' = <<OutputDir, "generated_tests", clock>>
    /\ inputs' = [gap_analysis |-> gap_analysis,
                  app_model_path |-> config.app_model_path,
                  validate_tests |-> Get(config, "validate_tests", TRUE),
                  output_file |-> gen_file']
    /\ call' = Begin("generator", inputs', {"gap_analysis", "app_model_path"})
    /\ events' = Log("call", "generation")
    /\ pc' = "await_gen"
    /\ UNCHANGED <<clock, run, caller, config, gap_analysis, generated_tests,
                   execution_report, analysis_summary, fs, wfail, dash, returned>>

\* Phase 2, up to the await: generator_inputs is built and
\* generator.execute is called.
CallGenerator ==
    /\ pc = "p2_call"
    /\ gen_file' = <<OutputDir, "generated_tests", clock>>
    /\ inputs' = [gap_analysis |-> gap_analysis,
                  app_model_path |-> config.app_model_path,
                  validate_tests |-> Get(config, "validate_tests", TRUE),
                  output_file |-> gen_file']
    /\ call' = Begin("generator", inputs', {"gap_analysis", "app_model_path"})
    /\ events' = Log("call", "generation")
    /\ pc' = "await_gen"
    /\ UNCHANGED <<clock, run, caller, config, gap_analysis, generated_tests,
                   execution_report, analysis_summary, fs, wfail, dash, returned>>

\* TestGeneratorAgent.execute.  reply is what the extraction makes of the
\* collaborator's answer (a result with test cases, or one with an empty
\* list); check is the same for the validation crew's answer.
GeneratorExecute ==
    /\ call.agent = "generator"
    /\ call.outcome = "running"
    /\ IF ~validate_inputs(inputs, {"gap_analysis", "app_model_path"})
       THEN /\ call' = End("ValueError", {})
            /\ events' = Log("raise", "generation")
            /\ pc' = "raised"
            /\ UNCHANGED <<generated_tests, fs, wfail>>
       ELSE IF inputs.gap_analysis \in {"error", "empty"}
       THEN \* _parse_gap_analysis: "error" in gap_data
            /\ call' = End("error", {})
            /\ events' = Log("error", "generation")
            /\ pc' = AfterReturn("p3")
            /\ generated_tests' = IF caller = "orchestrator" THEN "error" ELSE generated_tests
            /\ UNCHANGED <<fs, wfail>>
       ELSE IF ReadSource(inputs.app_model_path) = "nothing"
       THEN /\ call' = End("error", {"read"})
            /\ events' = Log("error", "generation")
            /\ pc' = AfterReturn("p3")
            /\ generated_tests' = IF caller = "orchestrator" THEN "error" ELSE generated_tests
            /\ UNCHANGED <<fs, wfail>>
       ELSE \E reply \in {"raises", "tests", "notests"},
               check \in {"raises", "tests", "notests"},
               refused \in BOOLEAN :
            LET validating == Get(inputs, "validate_tests", FALSE)
                final == IF validating THEN check ELSE reply
                saving == "output_file" \in DOMAIN inputs
            IN  IF reply = "raises" \/ (validating /\ check = "raises")
                THEN /\ call' = End("exception", {"read", "llm"})
                     /\ events' = Log("raise", "generation")
                     /\ pc' = "raised"
                     /\ UNCHANGED <<generated_tests, fs, wfail>>
                ELSE IF saving /\ refused
                THEN /\ call' = End("exception", {"read", "llm", "write"})
                     /\ events' = Log("raise", "generation")
                     /\ pc' = "raised"
                     /\ wfail' = wfail \cup {<<"generation", "generator">>}
                     /\ UNCHANGED <<generated_tests, fs>>
                ELSE /\ call' = End("ok", {"read", "llm"} \cup (IF saving THEN {"write"} ELSE {}))
                     /\ events' = Log("ok", "generation")
                     /\ pc' = AfterReturn("p3")
                     /\ generated_tests' = IF caller = "orchestrator" THEN final ELSE generated_tests
                     /\ fs' = IF saving THEN Write(fs, inputs.output_file, final, run) ELSE fs
                     /\ UNCHANGED wfail
    /\ UNCHANGED <<clock, run, caller, config, inputs, gap_analysis, gen_file,
                   execution_report, analysis_summary, dash, returned>>

\* Phase 3, up to the await: the executor is called when the generated
\* tests file exists, and skipped otherwise.
Phase3 ==
    /\ pc = "p3"
    /\ IF Exists(fs, gen_file)
       THEN /\ inputs' = [test_cases_path |-> gen_file, output_dir |-> OutputDir]
            /\ call' = Begin("executor", inputs', {"test_cases_path"})
            /\ events' = Log("call", "execution")
            /\ pc' = "await_exec"
       ELSE /\ pc' = "p4"
            /\ UNCHANGED <<inputs, call, events>>
    /\ UNCHANGED <<clock, run, caller, config, gap_analysis, generated_tests,
                   gen_file, execution_report, analysis_summary, fs, wfail,
                   dash, returned>>

\* TestExecutorAgent.execute (test_executor.py).  A refused write of the
\* report is logged and the report is returned all the same.
ExecutorExecute ==
    /\ call.agent = "executor"
    /\ call.outcome = "running"
    /\ IF ~validate_inputs(inputs, {"test_cases_path"})
       THEN /\ call' = End("ValueError", {})
            /\ events' = Log("raise", "execution")
            /\ pc' = "raised"
            /\ UNCHANGED <<execution_report, fs, wfail>>
       ELSE IF \/ ~Exists(fs, inputs.test_cases_path)
               \/ File(fs, inputs.test_cases_path).body # "tests"
       THEN \* no file, or no test cases in it
            /\ call' = End("error", {"read"})
            /\ events' = Log("error", "execution")
            /\ pc' = AfterReturn("p4")
            /\ execution_report' = IF caller = "orchestrator"
                                   THEN [st |-> "error", id |-> -1]
                                   ELSE execution_report
            /\ UNCHANGED <<fs, wfail>>
       ELSE \E refused \in BOOLEAN :
            LET execution_id == clock
                output_path == <<Get(inputs, "output_dir", DefaultOutputDir),
                                 "execution_report", execution_id>>
            IN  /\ call' = End("ok", {"read", "write"})
                /\ events' = Log("ok", "execution")
                /\ pc' = AfterReturn("p4")
                /\ execution_report' = IF caller = "orchestrator"
                                       THEN [st |-> "ok", id |-> execution_id]
                                       ELSE execution_report
                /\ fs' = IF refused THEN fs ELSE Write(fs, output_path, "report", run)
                /\ wfail' = IF refused
                            THEN wfail \cup {<<"execution", "executor">>}
                            ELSE wfail
    /\ UNCHANGED <<clock, run, caller, config, inputs, gap_analysis,
                   generated_tests, gen_file, analysis_summary, dash, returned>>

\* Phase4 as it would be if the controller relied on the executor's own
\* write of the report.
Phase4_NoControllerWrite ==
    /\ pc = "p4"
    /\ IF Exists(fs, gen_file) /\ execution_report.st = "ok"
       THEN /\ inputs' = [execution_report_path |->
                            <<OutputDir, "execution_report", execution_report.id>>]
            /\ call' = Begin("result_analyzer", inputs', {})
            /\ events' = Log("call", "analysis")
            /\ pc' = "await_analysis"
       ELSE /\ pc' = "p5"
            /\ UNCHANGED <<inputs, call, events>>
    /\ UNCHANGED <<clock, run, caller, config, gap_analysis, generated_tests,
                   gen_file, execution_report, analysis_summary, fs, wfail,
                   dash, returned>>

\* Phase4 as it would be if the controller did not look for an error in
\* the execution report.
Phase4_ErrorUnchecked ==
    /\ pc = "p4"
    /\ IF Exists(fs, gen_file) /\ execution_report.st # "unset"
       THEN \E refused \in BOOLEAN :
            LET execution_report_file ==
                    <<OutputDir, "execution_report", execution_report.id>>
            IN  IF refused
                THEN /\ pc' = "raised"
                     /\ wfail' = wfail \cup {<<"execution", "controller">>}
                     /\ UNCHANGED <<inputs, call, events, fs>>
                ELSE /\ fs' = Write(fs, execution_report_file, "report", run)
                     /\ inputs' = [execution_report_path |-> execution_report_file]
                     /\ call' = Begin("result_analyzer", inputs', {})
                     /\ events' = Log("call", "analysis")
                     /\ pc' = "await_analysis"
                     /\ UNCHANGED wfail
       ELSE /\ pc' = "p5"
            /\ UNCHANGED <<inputs, call, events, fs, wfail>>
    /\ UNCHANGED <<clock, run, caller, config, gap_analysis, generated_tests,
                   gen_file, execution_report, analysis_summary, dash, returned>>

\* Phase 4, up to the call: with a generated tests file and an execution
\* report without error, the controller writes the report to
\* execution_report_<execution_id>.json and calls result_analyzer.analyze.
Phase4 ==
    /\ pc = "p4"
    /\ IF Exists(fs, gen_file) /\ execution_report.st = "ok"
       THEN \E refused \in BOOLEAN :
            LET execution_report_file ==
                    <<OutputDir, "execution_report", execution_report.id>>
            IN  IF refused
                THEN /\ pc' = "raised"
                     /\ wfail' = wfail \cup {<<"execution", "controller">>}
                     /\ UNCHANGED <<inputs, call, events, fs>>
                ELSE /\ fs' = Write(fs, execution_report_file, "report", run)
                     /\ inputs' = [execution_report_path |-> execution_report_file]
                     /\ call' = Begin("result_analyzer", inputs', {})
                     /\ events' = Log("call", "analysis")
                     /\ pc' = "await_analysis"
                     /\ UNCHANGED wfail
       ELSE /\ pc' = "p5"
            /\ UNCHANGED <<inputs, call, events, fs, wfail>>
    /\ UNCHANGED <<clock, run, caller, config, gap_analysis, generated_tests,
                   gen_file, execution_report, analysis_summary, dash, returned>>

\* ResultAnalyzerAgent.analyze (result_analyzer.py).  Whatever the
\* collaborator does, insights are produced; the summary is written to
\* the agent's own output_dir.
ResultAnalyze ==
    /\ call.agent = "result_analyzer"
    /\ call.outcome = "running"
    /\ IF ~Exists(fs, inputs.execution_report_path)
       THEN /\ call' = End("error", {"read"})
            /\ events' = Log("error", "analysis")
            /\ pc' = "p5"
            /\ analysis_summary' = "error"
            /\ UNCHANGED <<fs, wfail>>
       ELSE \E reply \in {"raises", "advice", "garbage"}, refused \in BOOLEAN :
            IF refused
            THEN /\ call' = End("exception", {"read", "llm", "write"})
                 /\ events' = Log("raise", "analysis")
                 /\ pc' = "raised"
                 /\ wfail' = wfail \cup {<<"analysis", "result_analyzer">>}
                 /\ UNCHANGED <<analysis_summary, fs>>
            ELSE /\ call' = End("ok", {"read", "llm", "write"})
                 /\ events' = Log("ok", "analysis")
                 /\ pc' = "p5"
                 /\ analysis_summary' = "summary"
                 /\ fs' = Write(fs, <<AnalyzerOutputDir, "analysis_summary", clock>>,
                                "summary", run)
                 /\ UNCHANGED wfail
    /\ UNCHANGED <<clock, run, caller, config, inputs, gap_analysis,
                   generated_tests, gen_file, execution_report, dash, returned>>

\* LaunchDashboard as it would be without the try/except around the launch.
LaunchDashboard_Unguarded ==
    /\ pc = "p5"
    /\ \E outcome \in {"launched", "not_found", "popen_raised", "browser_raised"} :
        /\ dash' = outcome
        /\ IF outcome \in {"popen_raised", "browser_raised"}
           THEN /\ pc' = "raised"
                /\ UNCHANGED returned
           ELSE /\ pc' = "done"
                /\ returned' =
                    [set |-> TRUE,
                     gap_analysis |-> gap_analysis,
                     generated_tests |-> generated_tests,
                     execution_report |-> IF Exists(fs, gen_file)
                                          THEN execution_report
                                          ELSE [st |-> "None", id |-> -1],
                     analysis_summary |-> analysis_summary]
    /\ UNCHANGED <<clock, run, caller, config, inputs, call, events,
                   gap_analysis, generated_tests, gen_file, execution_report,
                   analysis_summary, fs, wfail>>

\* Phase 5 and the return: the dashboard launch sits in try/except
\* Exception, then the result set is returned.
LaunchDashboard ==
    /\ pc = "p5"
    /\ \E outcome \in {"launched", "not_found", "popen_raised", "browser_raised"} :
        dash' = outcome
    /\ returned' =
        [set |-> TRUE,
         gap_analysis |-> gap_analysis,
         generated_tests |-> generated_tests,
         execution_report |-> IF Exists(fs, gen_file)
                              THEN execution_report
                              ELSE [st |-> "None", id |-> -1],
         analysis_summary |-> analysis_summary]
    /\ pc' = "done"
    /\ UNCHANGED <<clock, run, caller, config, inputs, call, events,
                   gap_analysis, generated_tests, gen_file, execution_report,
                   analysis_summary, fs, wfail>>

\* --------------------------------------------------- agents called directly
\* What a direct caller (each agent's own main, the MCP server) may pass:
\* any subset of the keys of a full inputs dict.
DirectInputs(agent) ==
    CASE agent = "analyzer" ->
            [baseline_tests_path |-> "baseline.json",
             app_model_path |-> "app_model.md"]
      [] agent = "generator" ->
            [gap_analysis |-> "report", app_model_path |-> "app_model.md",
             validate_tests |-> FALSE]
      [] agent = "executor" ->
            [test_cases_path |-> <<"out", "generated_tests", clock>>,
             output_dir |-> "out"]
      [] agent = "raw_results_analyzer" ->
            [raw_results |-> "[]"]

RequiredFields(agent) ==
    CASE agent = "analyzer" -> {"baseline_tests_path", "app_model_path"}
      [] agent = "generator" -> {"gap_analysis", "app_model_path"}
      [] agent = "executor" -> {"test_cases_path"}
      [] agent = "raw_results_analyzer" -> {"raw_results"}

DirectCall ==
    /\ Resting
    /\ run < MaxRuns
    /\ \E agent \in {"analyzer", "generator", "executor", "raw_results_analyzer"} :
        \E ks \in SUBSET (DOMAIN DirectInputs(agent)) :
            /\ inputs' = Restrict(DirectInputs(agent), ks)
            /\ call' = Begin(agent, inputs', RequiredFields(agent))
    /\ run' = run + 1
    /\ caller' = "direct"
    /\ config' = NoConfig
    /\ events' = <<>>
    /\ pc' = "await_direct"
    /\ FreshLocals
    /\ UNCHANGED <<clock, fs>>

\* RawResultsExecute as it would be without its validate_inputs call
\* (inputs.get("raw_results", "{}") supplies a default).
RawResultsExecute_NoValidation ==
    /\ call.agent = "raw_results_analyzer"
    /\ call.outcome = "running"
    /\ call' = End("ok", {})
    /\ pc' = "done"
    /\ UNCHANGED <<clock, run, caller, config, inputs, events, gap_analysis,
                   generated_tests, gen_file, execution_report,
                   analysis_summary, fs, wfail, dash, returned>>

\* ResultAnalyzerAgent.execute (analyze_results.py): no file, no
\* collaborator, no artifact.
RawResultsExecute ==
    /\ call.agent = "raw_results_analyzer"
    /\ call.outcome = "running"
    /\ IF ~validate_inputs(inputs, {"raw_results"})
       THEN /\ call' = End("ValueError", {})
            /\ pc' = "raised"
       ELSE /\ call' = End("ok", {})
            /\ pc' = "done"
    /\ UNCHANGED <<clock, run, caller, config, inputs, events, gap_analysis,
                   generated_tests, gen_file, execution_report,
                   analysis_summary, fs, wfail, dash, returned>>

\* ------------------------------------------------------------------- Next
Next ==
    \/ Tick /\ UNCHANGED pure
    \/ StartRun /\ UNCHANGED pure
    \/ AnalyzerExecute /\ UNCHANGED pure
    \/ SaveGapAnalysis /\ UNCHANGED pure
    \/ CallGenerator /\ UNCHANGED pure
    \/ GeneratorExecute /\ UNCHANGED pure
    \/ Phase3 /\ UNCHANGED pure
    \/ ExecutorExecute /\ UNCHANGED pure
    \/ Phase4 /\ UNCHANGED pure
    \/ ResultAnalyze /\ UNCHANGED pure
    \/ LaunchDashboard /\ UNCHANGED pure
    \/ DirectCall /\ UNCHANGED pure
    \/ RawResultsExecute /\ UNCHANGED pure

Spec == Init /\ [][Next]_vars

\* ============================================================== extraction
\* TestGeneratorAgent.execute, from the collaborator's reply to the returned
\* dict.  A text is a sequence of lexemes: the punctuation marks of JSON, the
\* quotation mark, the code-fence marks and words (runs of other characters).
\* White space is not a lexeme: two lexemes that follow each other stand for
\* text in which at most white space separates them, and a word followed by
\* ":" stands for the word with the colon right after it.

\* The most records a reply of the collaborator lists.
MaxRecords == 3

\* The quotation mark of JSON, written ' in the lexemes.
Quote == "'"

\* The code-fence mark, three backquotes.
Fence == "<fence>"

\* The mark that opens a JSON code block: the fence mark and the word json.
JsonFence == "<fence>json"

Punctuation == {"{", "}", "[", "]", ",", ":", Quote, Fence, JsonFence}

\* A test id as _create_fallback_tests looks for it: TC-[A-Z]+-\d+
TCId == "TC-AI-001"

\* \w+ : a lexeme made of letters, digits and underscores only.
IsWord(x) == x \notin Punctuation \cup {TCId}

\* x in text
Contains(text, x) == \E i \in DOMAIN text : text[i] = x

\* Fence in text: the mark on its own or at the head of JsonFence.
HasFence(text) == Contains(text, Fence) \/ Contains(text, JsonFence)

\* text.find(x) + 1, and 0 when x is not in text.
Find(text, x) ==
    IF Contains(text, x) THEN CHOOSE i \in DOMAIN text :
                                  /\ text[i] = x
                                  /\ \A j \in 1..(i - 1) : text[j] # x
    ELSE 0

\* text.split(x)[0]
BeforeFirst(text, x) ==
    IF Contains(text, x) THEN SubSeq(text, 1, Find(text, x) - 1) ELSE text

\* x.join(text.split(x)[1:]), for a text that contains x
AfterFirst(text, x) == SubSeq(text, Find(text, x) + 1, Len(text))

\* text.split(Fence), for a text without JsonFence
RECURSIVE SplitFence(_)
SplitFence(text) ==
    IF Contains(text, Fence)
    THEN <<BeforeFirst(text, Fence)>> \o SplitFence(AfterFirst(text, Fence))
    ELSE <<text>>

\* text.startswith(prefix)
StartsWith(text, prefix) ==
    Len(prefix) <= Len(text) /\ SubSeq(text, 1, Len(prefix)) = prefix

\* ------------------------------------------------------------ json.loads
\* A JSON value is [t |-> type, v |-> content]: a "str" holds its lexemes, a
\* "list" its values, a "dict" its <<key, value>> pairs in the order read,
\* a "num" or "bool" the one number or truth value, and "null" nothing.
Str(lexemes) == [t |-> "str", v |-> lexemes]

List(values) == [t |-> "list", v |-> values]

Dict(pairs) == [t |-> "dict", v |-> pairs]

Null == [t |-> "null", v |-> <<>>]

Num(n) == [t |-> "num", v |-> <<n>>]

Bool(b) == [t |-> "bool", v |-> <<b>>]

\* d[key] = value on the pairs of a dict: a key already there keeps its place.
SetPair(pairs, key, value) ==
    IF \E i \in DOMAIN pairs : pairs[i][1] = key
    THEN [i \in DOMAIN pairs |-> IF pairs[i][1] = key THEN <<key, value>> ELSE pairs[i]]
    ELSE Append(pairs, <<key, value>>)

\* JSONDecodeError
NoParse == [ok |-> FALSE, v |-> Null, i |-> 0]

Parsed(value, next) == [ok |-> TRUE, v |-> value, i |-> next]

At(text, i) == IF i \in DOMAIN text THEN text[i] ELSE "<end>"

\* The closing quotation mark of the string that opens at i, or 0.
ClosingQuote(text, i) ==
    IF \E j \in (i + 1)..Len(text) : text[j] = Quote
    THEN CHOOSE j \in (i + 1)..Len(text) :
            text[j] = Quote /\ \A k \in (i + 1)..(j - 1) : text[k] # Quote
    ELSE 0

ParseString(text, i) ==
    IF At(text, i) = Quote /\ ClosingQuote(text, i) # 0
    THEN Parsed(Str(SubSeq(text, i + 1, ClosingQuote(text, i) - 1)),
                ClosingQuote(text, i) + 1)
    ELSE NoParse

\* The largest number written in a text.
MaxNumber == 30

\* The lexemes that are numbers: the whole numbers up to MaxNumber.
NumberLexemes == {ToString(n) : n \in 0..MaxNumber}

\* int(lexeme)
NumberOf(lexeme) == CHOOSE n \in 0..MaxNumber : ToString(n) = lexeme

RECURSIVE ParseValue(_, _), ParseMembers(_, _, _), ParseElements(_, _, _)
\* The value that starts at lexeme i.
ParseValue(text, i) ==
    CASE At(text, i) = Quote -> ParseString(text, i)
      [] At(text, i) = "null" -> Parsed(Null, i + 1)
      [] At(text, i) = "true" -> Parsed(Bool(TRUE), i + 1)
      [] At(text, i) = "false" -> Parsed(Bool(FALSE), i + 1)
      [] At(text, i) \in NumberLexemes -> Parsed(Num(NumberOf(At(text, i))), i + 1)
      [] At(text, i) = "{" ->
            IF At(text, i + 1) = "}" THEN Parsed(Dict(<<>>), i + 2)
            ELSE ParseMembers(text, i + 1, <<>>)
      [] At(text, i) = "[" ->
            IF At(text, i + 1) = "]" THEN Parsed(List(<<>>), i + 2)
            ELSE ParseElements(text, i + 1, <<>>)
      [] OTHER -> NoParse

\* "key": value pairs up to the closing brace.
ParseMembers(text, i, pairs) ==
    LET key == ParseString(text, i)
        val == ParseValue(text, key.i + 1)
        all == SetPair(pairs, key.v.v, val.v)
    IN  IF ~key.ok \/ At(text, key.i) # ":" THEN NoParse
        ELSE IF ~val.ok THEN NoParse
        ELSE CASE At(text, val.i) = "," -> ParseMembers(text, val.i + 1, all)
               [] At(text, val.i) = "}" -> Parsed(Dict(all), val.i + 1)
               [] OTHER -> NoParse

\* Values up to the closing bracket.
ParseElements(text, i, values) ==
    LET val == ParseValue(text, i)
        all == Append(values, val.v)
    IN  IF ~val.ok THEN NoParse
        ELSE CASE At(text, val.i) = "," -> ParseElements(text, val.i + 1, all)
               [] At(text, val.i) = "]" -> Parsed(List(all), val.i + 1)
               [] OTHER -> NoParse

\* json.loads(text): one value and nothing after it.
loads(text) ==
    LET r == ParseValue(text, 1)
    IN  IF r.ok /\ r.i = Len(text) + 1 THEN r ELSE NoParse

\* json.dumps(value): the text of a value.
RECURSIVE dumps(_)
dumps(value) ==
    LET RECURSIVE Joined(_, _)
        \* the texts of the items from the i-th on, commas between them
        Joined(items, i) ==
            IF i > Len(items) THEN <<>>
            ELSE (IF i > 1 THEN <<",">> ELSE <<>>)
                    \o (IF value.t = "dict"
                        THEN <<Quote>> \o items[i][1] \o <<Quote, ":">> \o dumps(items[i][2])
                        ELSE dumps(items[i]))
                    \o Joined(items, i + 1)
    IN  CASE value.t = "str" -> <<Quote>> \o value.v \o <<Quote>>
          [] value.t = "num" -> <<ToString(value.v[1])>>
          [] value.t = "bool" -> <<IF value.v[1] THEN "true" ELSE "false">>
          [] value.t = "null" -> <<"null">>
          [] value.t = "list" -> <<"[">> \o Joined(value.v, 1) \o <<"]">>
          [] value.t = "dict" -> <<"{">> \o Joined(value.v, 1) \o <<"}">>

\* "key" in d, for a dict
HasKey(d, key) == \E i \in DOMAIN d.v : d.v[i][1] = key

\* d[key]
Item(d, key) == d.v[CHOOSE i \in DOMAIN d.v : d.v[i][1] = key][2]

\* d.get(key, default)
GetItem(d, key, default) == IF HasKey(d, key) THEN Item(d, key) ELSE default

\* d[key] = value
SetItem(d, key, value) == Dict(SetPair(d.v, key, value))

\* not value: None, "", [], {}, 0 and False are false
Falsy(value) ==
    CASE value.t = "num" -> value.v[1] = 0
      [] value.t = "bool" -> ~value.v[1]
      [] OTHER -> value.v = <<>>


\* ------------------------------------------- locating the JSON in the reply
\* result_text.split("<fence>json")[1].split("<fence>")[0]
FencedJson(text) ==
    BeforeFirst(BeforeFirst(AfterFirst(text, JsonFence), JsonFence), Fence)

\* The first block between fence marks that holds both braces, or nothing.
FirstJsonBlock(text) ==
    LET code_blocks == SplitFence(text)
        holds(i) == Contains(code_blocks[i], "{") /\ Contains(code_blocks[i], "}")
    IN  IF \E i \in DOMAIN code_blocks : holds(i)
        THEN code_blocks[CHOOSE i \in DOMAIN code_blocks :
                            holds(i) /\ \A j \in 1..(i - 1) : ~holds(j)]
        ELSE NoText

\* The index at which the brace opened at start_idx is closed, counting every
\* brace on the way (those inside strings too), or 0.
RECURSIVE MatchingBrace(_, _, _)
MatchingBrace(text, i, brace_count) ==
    IF i > Len(text) THEN 0
    ELSE LET n == CASE text[i] = "{" -> brace_count + 1
                     [] text[i] = "}" -> brace_count - 1
                     [] OTHER -> brace_count
         IN  IF text[i] = "}" /\ n = 0 THEN i
             ELSE MatchingBrace(text, i + 1, n)

\* From the first opening brace to its matching closing brace, or nothing.
BraceBlock(text) ==
    LET start_idx == Find(text, "{")
        end_idx == MatchingBrace(text, start_idx, 0)
    IN  IF start_idx # 0 /\ end_idx # 0 THEN SubSeq(text, start_idx, end_idx)
        ELSE NoText

\* Strategy 1 of execute: the fenced block, else the first block with braces,
\* else the first balanced brace block, else the whole reply.
Located(text) ==
    LET fenced == IF Contains(text, JsonFence) THEN FencedJson(text)
                  ELSE IF HasFence(text) /\ Contains(text, "{")
                       THEN FirstJsonBlock(text)
                       ELSE NoText
        braced == IF fenced = NoText THEN BraceBlock(text) ELSE fenced
    IN  IF braced = NoText THEN text ELSE braced

\* ------------------------------------------------------------- clean-up
\* str.lower() of the words that open a prefix.
Lower(x) ==
    CASE x = "Here" -> "here"
      [] x = "The" -> "the"
      [] x = "Final" -> "final"
      [] x = "Answer" -> "answer"
      [] x = "Your" -> "your"
      [] OTHER -> x

LowerText(text) == [i \in DOMAIN text |-> Lower(text[i])]

\* prefixes_to_remove, lower-cased
prefixes_to_remove ==
    << <<"here", "is", "the">>, <<"the", "answer", "is">>,
       <<"final", "answer", ":">>, <<"your", "final", "answer", "must", "be">>,
       <<"the", "great", "and">> >>

\* The loop over prefixes_to_remove, from the k-th prefix on.
RECURSIVE RemovePrefixes(_, _)
RemovePrefixes(content, k) ==
    IF k > Len(prefixes_to_remove) THEN content
    ELSE IF StartsWith(LowerText(content), prefixes_to_remove[k])
         THEN RemovePrefixes(
                SubSeq(content, Len(prefixes_to_remove[k]) + 1, Len(content)), k + 1)
         ELSE RemovePrefixes(content, k + 1)

\* Strategy 2 of execute: the fence marks go, then the prefixes.  (The
\* lexemes hold no backslash, so the two backslash replacements find none.)
CleanUp(content) ==
    RemovePrefixes(SelectSeq(content, LAMBDA x : x \notin {Fence, JsonFence}), 1)

\* --------------------------------------------------------------- repair
\* re.sub(r',\s*}', '}', text) with closer "}", and the same for "]": every
\* comma that only white space separates from the closer goes.
DropCommaBefore(text, closer) ==
    LET keep == {i \in DOMAIN text : ~(text[i] = "," /\ At(text, i + 1) = closer)}
        RECURSIVE Kept(_)
        Kept(i) ==
            IF i > Len(text) THEN <<>>
            ELSE (IF i \in keep THEN <<text[i]>> ELSE <<>>) \o Kept(i + 1)
    IN  Kept(1)

\* re.sub(r'(\w+):', r'"\1":', text): every word that a colon follows at
\* once is put in quotation marks, wherever it stands.
RECURSIVE QuoteWordsBeforeColon(_, _)
QuoteWordsBeforeColon(text, i) ==
    IF i > Len(text) THEN <<>>
    ELSE (IF IsWord(text[i]) /\ At(text, i + 1) = ":"
          THEN <<Quote, text[i], Quote>>
          ELSE <<text[i]>>) \o QuoteWordsBeforeColon(text, i + 1)

\* fixed_content of execute
Fixed(content) ==
    QuoteWordsBeforeColon(
        DropCommaBefore(DropCommaBefore(content, "}"), "]"), 1)


\* ------------------------------------------------- _extract_structured_data
Min(a, b) == IF a < b THEN a ELSE b

Max(a, b) == IF a > b THEN a ELSE b

\* A word as a dict key or a one-word string.
K(word) == <<word>>

\* f"{n:03d}"
Pad3(n) ==
    IF n < 10 THEN "00" \o ToString(n)
    ELSE IF n < 100 THEN "0" \o ToString(n) ELSE ToString(n)

\* re.findall(r'"<key>":\s*"([^"]+)"', text), from lexeme i on: what stands
\* between the quotation marks after each "<key>": , when it is not empty.
RECURSIVE FindAll(_, _, _)
FindAll(text, i, key) ==
    IF i > Len(text) THEN <<>>
    ELSE LET close == ClosingQuote(text, i + 4)
         IN  IF /\ i + 4 <= Len(text)
                /\ SubSeq(text, i, i + 4) = <<Quote, key, Quote, ":", Quote>>
                /\ close > i + 5
             THEN <<SubSeq(text, i + 5, close - 1)>> \o FindAll(text, close + 1, key)
             ELSE FindAll(text, i + 1, key)

\* The test dicts a function builds: the fields in the order of the code.
Test(test_id, module, scenario, priority, category) ==
    Dict(<< <<K("test_id"), Str(test_id)>>, <<K("module"), Str(module)>>,
            <<K("scenario"), Str(scenario)>>, <<K("priority"), Str(priority)>>,
            <<K("test_type"), Str(K("functional"))>>,
            <<K("category"), Str(K(category))>> >>)

\* _extract_structured_data without the floor of ten records: as many records
\* as the most frequent pattern has occurrences.
extract_structured_data_Unpadded(content) ==
    LET test_ids == FindAll(content, 1, "test_id")
        modules == FindAll(content, 1, "module")
        scenarios == FindAll(content, 1, "scenario")
        priorities == FindAll(content, 1, "priority")
        max_tests ==
            Min(30, Max(Max(Len(test_ids), Len(modules)), Len(scenarios)))
        tests ==
            [i \in 1..max_tests |->
                Test(IF i <= Len(test_ids) THEN test_ids[i] ELSE K("TC-AI-" \o Pad3(i)),
                     IF i <= Len(modules) THEN modules[i] ELSE <<"Banking", "System">>,
                     IF i <= Len(scenarios) THEN scenarios[i]
                     ELSE <<"Banking", "test", "scenario", ToString(i)>>,
                     IF i <= Len(priorities) THEN priorities[i] ELSE K("medium"),
                     "extracted_tests")]
    IN  IF tests # <<>>
        THEN Dict(<< <<K("generated_tests"), List(tests)>>,
                     <<K("test_summary"),
                       Dict(<< <<K("total_tests"), Num(Len(tests))>>,
                               <<K("extraction_method"),
                                 Str(K("manual_pattern_matching"))>> >>)>> >>)
        ELSE Dict(<<>>)

extract_structured_data(content) ==
    LET test_ids == FindAll(content, 1, "test_id")
        modules == FindAll(content, 1, "module")
        scenarios == FindAll(content, 1, "scenario")
        priorities == FindAll(content, 1, "priority")
        max_tests ==
            Min(30, Max(Max(Len(test_ids), Len(modules)), Max(Len(scenarios), 10)))
        tests ==
            [i \in 1..max_tests |->
                Test(IF i <= Len(test_ids) THEN test_ids[i] ELSE K("TC-AI-" \o Pad3(i)),
                     IF i <= Len(modules) THEN modules[i] ELSE <<"Banking", "System">>,
                     IF i <= Len(scenarios) THEN scenarios[i]
                     ELSE <<"Banking", "test", "scenario", ToString(i)>>,
                     IF i <= Len(priorities) THEN priorities[i] ELSE K("medium"),
                     "extracted_tests")]
    IN  IF tests # <<>>
        THEN Dict(<< <<K("generated_tests"), List(tests)>>,
                     <<K("test_summary"),
                       Dict(<< <<K("total_tests"), Num(Len(tests))>>,
                               <<K("extraction_method"),
                                 Str(K("manual_pattern_matching"))>> >>)>> >>)
        ELSE Dict(<<>>)

\* --------------------------------------------------- _create_fallback_tests
banking_modules ==
    << <<"Authentication">>, <<"Payment", "Processing">>, <<"Account", "Management">>,
       <<"Security">>, <<"Transaction", "History">> >>

test_types ==
    << <<"Login", "validation">>, <<"Payment", "flow">>, <<"Account", "verification">>,
       <<"Security", "check">>, <<"Data", "retrieval">> >>

create_fallback_tests(failed_content) ==
    LET test_ids == SelectSeq(failed_content, LAMBDA x : x = TCId)
        modules == FindAll(failed_content, 1, "module")
        test_scenarios == FindAll(failed_content, 1, "scenario")
        \* zip() stops at the shortest of the three lists
        zipped ==
            Min(IF test_ids # <<>> THEN Min(Len(test_ids), 10) ELSE 10,
                Min(IF modules # <<>> THEN Min(Len(modules), 10) ELSE 10,
                    IF test_scenarios # <<>> THEN Min(Len(test_scenarios), 10) ELSE 10))
        found ==
            IF failed_content # NoText
               /\ (test_ids # <<>> \/ modules # <<>> \/ test_scenarios # <<>>)
            THEN [i \in 1..zipped |->
                    Test(IF test_ids # <<>> THEN K(test_ids[i])
                         ELSE K("TC-GEN-" \o Pad3(i - 1)),
                         IF modules # <<>> THEN modules[i] ELSE <<"Banking", "System">>,
                         IF test_scenarios # <<>> THEN test_scenarios[i]
                         ELSE <<"Test", "scenario", ToString(i)>>,
                         K("medium"), "generated_tests")]
            ELSE <<>>
        banking ==
            [i \in 1..30 |->
                Test(K("TC-AI-" \o Pad3(i)),
                     banking_modules[((i - 1) % 5) + 1],
                     test_types[((i - 1) % 5) + 1] \o <<"-", "scenario", ToString(i)>>,
                     K(<<"high", "medium", "low">>[((i - 1) % 3) + 1]),
                     "ai_generated")]
        scenarios == IF found # <<>> THEN found ELSE banking
        first30 == SubSeq(scenarios, 1, Min(30, Len(scenarios)))
    IN  Dict(<< <<K("generated_tests"), List(first30)>>,
                <<K("test_summary"),
                  Dict(<< <<K("total_tests"), Num(Len(first30))>>,
                          <<K("fallback_reason"),
                            Str(<<"JSON", "parsing", "failed", ",", "used",
                                  "intelligent", "content", "analysis">>)>>,
                          <<K("generated_from_content"),
                            Bool(failed_content # NoText)>> >>)>> >>)


\* ------------------------------------------------ TestGeneratorAgent.execute
\* Strategy 3 of execute: json.loads, then json.loads of the repaired text,
\* then field harvesting.
Strategy3(json_content) ==
    IF loads(json_content).ok THEN loads(json_content).v
    ELSE IF loads(Fixed(json_content)).ok THEN loads(Fixed(json_content)).v
    ELSE extract_structured_data(json_content)

\* Strategy 4 of execute: anything false gives way to the fallback tests.
Strategy4(json_content) ==
    IF Falsy(Strategy3(json_content)) THEN create_fallback_tests(json_content)
    ELSE Strategy3(json_content)

\* What is not a dict is wrapped: a list as it is, anything else as no tests.
Wrapped(value) ==
    IF value.t = "dict" THEN value
    ELSE Dict(<< <<K("generated_tests"),
                   IF value.t = "list" THEN value ELSE List(<<>>)>> >>)

\* A value of the dict that is a non-empty list whose first item is a dict
\* with a test_id.
IsTestList(value) ==
    /\ value.t = "list"
    /\ Len(value.v) > 0
    /\ value.v[1].t = "dict"
    /\ HasKey(value.v[1], K("test_id"))

\* "Validate and enhance structure": the dict with its generated_tests, or
\* one made of the first test list found in it, or the fallback tests.
Structured(value, json_content) ==
    LET d == Wrapped(value)
        lists == {i \in DOMAIN d.v : IsTestList(d.v[i][2])}
    IN  IF HasKey(d, K("generated_tests")) THEN d
        ELSE IF lists # {}
             THEN Dict(<< <<K("generated_tests"),
                            d.v[CHOOSE i \in lists : \A j \in lists : i <= j][2]>> >>)
             ELSE create_fallback_tests(json_content)

\* generated_tests of execute before the optional validation.
Generated(text) ==
    Structured(Strategy4(CleanUp(Located(text))), CleanUp(Located(text)))

\* The JSON of the validator's reply: the fenced block when there is one.
ValidationJson(text) ==
    IF Contains(text, JsonFence) THEN FencedJson(text)
    ELSE IF Contains(text, Fence)
         THEN BeforeFirst(AfterFirst(text, Fence), Fence)
         ELSE text

\* final_tests of execute: the validator's JSON when validation is asked for
\* and its reply parses, the generated tests otherwise.
Validated(tests, validate, text) ==
    IF validate /\ loads(ValidationJson(text)).ok
    THEN Wrapped(loads(ValidationJson(text)).v)
    ELSE tests

\* final_tests_dict["metadata"] = {...}; the time and the number of gaps are
\* not part of a text.
WithMetadata(d) ==
    SetItem(d, K("metadata"),
            Dict(<< <<K("agent"), Str(K("ai-test-generator"))>>,
                    <<K("version"), Str(K("1.0.0"))>> >>))

\* The dict execute returns for a reply.
Execute(text, validate, vtext) ==
    WithMetadata(Validated(Generated(text), validate, vtext))


\* ------------------------------------------------ TestAnalyzerAgent.execute
\* text.rfind(x) + 1, and 0 when x is not in text.
RFind(text, x) ==
    IF Contains(text, x) THEN CHOOSE i \in DOMAIN text :
                                  /\ text[i] = x
                                  /\ \A j \in (i + 1)..Len(text) : text[j] # x
    ELSE 0

\* json_content of TestAnalyzerAgent.execute: the interior of the JSON code
\* block, else of the first code block, else the text from the first
\* opening brace to the last closing brace; nothing when the method that
\* applies finds nothing.
gap_json_content(text) ==
    IF Contains(text, JsonFence)
    THEN (IF HasFence(AfterFirst(text, JsonFence)) THEN FencedJson(text) ELSE NoText)
    ELSE IF Contains(text, Fence) /\ Len(SplitFence(text)) >= 3
         THEN SplitFence(text)[2]
    ELSE IF Contains(text, "{") /\ Contains(text, "}")
         THEN SubSeq(text, Find(text, "{"), RFind(text, "}"))
    ELSE NoText

\* The gap analysis returned when the reply gives no JSON.
fallback_gap_analysis(text) ==
    Dict(<< <<K("gap_analysis_report"),
              Dict(<< <<K("summary"),
                        Str(K("Fallback analysis due to JSON parsing issues"))>>,
                      <<K("raw_analysis"), Str(text)>> >>)>> >>)

\* The dict TestAnalyzerAgent.execute returns for a reply.
parse_gap_analysis(text) ==
    IF gap_json_content(text) # NoText /\ loads(gap_json_content(text)).ok
    THEN loads(gap_json_content(text)).v
    ELSE fallback_gap_analysis(text)


\* ------------------------------------------------------ the replies studied
\* "key" as it stands in a text: in quotation marks, or bare.
KeyText(key, bare) == IF bare THEN <<key>> ELSE <<Quote, key, Quote>>

\* "value" as it stands in a text.
StringText(lexemes) == <<Quote>> \o lexemes \o <<Quote>>

\* The scenario values of a reply: none, plain words, or words of which one
\* is followed by a colon.
ScenarioValues == {"none", "plain", "colon"}

ScenarioText(scen) ==
    CASE scen = "none" -> <<>>
      [] scen = "plain" ->
            <<",">> \o KeyText("scenario", FALSE) \o <<":">> \o StringText(<<"login", "works">>)
      [] scen = "colon" ->
            <<",">> \o KeyText("scenario", FALSE) \o <<":">> \o
                StringText(<<"Note", ":", "login", "works">>)

\* The i-th test record of a reply: {"test_id": "T<i>", "scenario": ...}
RecordText(i, scen, bare, comma) ==
    <<"{">> \o KeyText("test_id", bare) \o <<":">> \o StringText(K("T" \o ToString(i)))
        \o ScenarioText(scen) \o (IF comma THEN <<",">> ELSE <<>>) \o <<"}">>

\* The first n records, separated by commas.
RECURSIVE RecordsText(_, _, _, _)
RecordsText(n, scen, bare, comma) ==
    IF n = 0 THEN <<>>
    ELSE IF n = 1 THEN RecordText(1, scen, bare, comma)
    ELSE RecordsText(n - 1, scen, bare, comma) \o <<",">>
            \o RecordText(n, scen, bare, comma)

\* [ records ], with a comma before the bracket when asked for.
ListText(n, scen, bare, comma) ==
    <<"[">> \o RecordsText(n, scen, bare, comma = "record")
        \o (IF comma = "list" /\ n > 0 THEN <<",">> ELSE <<>>) \o <<"]">>

\* { "key": [ records ] }, with a comma before the brace when asked for.
ObjectText(key, n, scen, bare, comma) ==
    <<"{">> \o KeyText(key, FALSE) \o <<":">> \o ListText(n, scen, bare, comma)
        \o (IF comma = "object" THEN <<",">> ELSE <<>>) \o <<"}">>

\* Prose with n occurrences of "test_id": "T<i>" and no brace.
RECURSIVE ProseText(_)
ProseText(n) ==
    IF n = 0 THEN <<"I", "wrote", "the", "tests">>
    ELSE ProseText(n - 1) \o KeyText("test_id", FALSE) \o <<":">>
            \o StringText(K("T" \o ToString(n)))

\* Occurrences of a field pattern in a long reply: more than the ten records
\* harvesting starts from, and more than the thirty it stops at.
ManyRecords == 12
MostRecords == 31

\* The bodies of the replies: objects and lists of up to MaxRecords records,
\* well-formed or with a misplaced comma or a bare key; JSON that is no record
\* list; prose, short and long; nothing.
Bodies ==
    {ObjectText(key, n, scen, bare, comma) :
        key \in {"generated_tests", "tests"}, n \in 0..MaxRecords,
        scen \in ScenarioValues, bare \in BOOLEAN,
        comma \in {"none", "record", "list", "object"}}
    \cup {ListText(n, scen, FALSE, "none") : n \in 0..MaxRecords, scen \in ScenarioValues}
    \cup {ProseText(n) : n \in (0..MaxRecords) \cup {ManyRecords, MostRecords}}
    \cup {NoText, <<"null">>, StringText(<<>>), StringText(<<"done">>),
          <<"{", "}">>, <<"see", TCId>>,
          <<"{">> \o KeyText("module", FALSE) \o <<":">> \o StringText(<<"Auth">>) \o <<"}">>}

\* What the collaborator puts around the body: nothing, a code block, words
\* before or after it, text with a closing brace after it; or the body
\* broken off before its last lexeme.
Wrappings == {"none", "json_fence", "fence", "prefix", "prose", "trailing", "truncated"}

Wrap(body, wrapping) ==
    CASE wrapping = "none" -> body
      [] wrapping = "json_fence" -> <<"Sure", JsonFence>> \o body \o <<Fence, "Done">>
      [] wrapping = "fence" -> <<"Sure", Fence>> \o body \o <<Fence>>
      [] wrapping = "prefix" -> <<"Here", "is", "the">> \o body
      [] wrapping = "prose" -> <<"Final", "Answer", ":">> \o body \o <<"Done">>
      [] wrapping = "trailing" -> body \o <<"and", "}", "more">>
      [] wrapping = "truncated" -> SubSeq(body, 1, Len(body) - 1)

ReplyTexts == {Wrap(body, wrapping) : body \in Bodies, wrapping \in Wrappings}

\* The validator's replies: no JSON, the tests it kept (none, or one), a dict
\* without tests, a list.
ValidationTexts ==
    {<<"Looks", "good">>,
     ObjectText("generated_tests", 0, "none", FALSE, "none"),
     Wrap(ObjectText("generated_tests", 1, "none", FALSE, "none"), "json_fence"),
     Wrap(<<"{">> \o KeyText("status", FALSE) \o <<":">> \o StringText(<<"ok">>) \o <<"}">>,
          "fence"),
     ListText(1, "plain", FALSE, "none")}

\* ----------------------------------------------------------- SpecExtract
\* One call of the generator's extraction on one reply.
InitExtract ==
    /\ PipelineIdle
    /\ NormalizerIdle
    /\ StatisticsIdle
    /\ result_text \in ReplyTexts
    /\ validate_tests \in BOOLEAN
    /\ validation_text \in (IF validate_tests THEN ValidationTexts ELSE {NoText})
    /\ final_tests = NotReturned
    /\ parsed_result = NotReturned

\* execute, from the reply to the returned dict.
GenerateTests ==
    /\ final_tests = NotReturned
    /\ final_tests' = Execute(result_text, validate_tests, validation_text)
    /\ UNCHANGED <<result_text, validation_text, validate_tests, parsed_result>>
    /\ UNCHANGED <<pipeline, normalizer, statistics>>

\* TestAnalyzerAgent.execute, from the reply to the returned dict.
AnalyzeGaps ==
    /\ parsed_result = NotReturned
    /\ parsed_result' = parse_gap_analysis(result_text)
    /\ UNCHANGED <<result_text, validation_text, validate_tests, final_tests>>
    /\ UNCHANGED <<pipeline, normalizer, statistics>>

NextExtract ==
    \/ GenerateTests
    \/ AnalyzeGaps

SpecExtract == InitExtract /\ [][NextExtract]_vars


\* ======================================================== report normalizer
\* run_tests.py: TestExecutorAgent.execute runs pytest on a suite directory
\* and turns the JUnit XML it leaves into result records.  The test run is
\* the environment: whether the suite directory exists, the exit status of
\* pytest, and the report file (absent, not well-formed XML, or a report
\* whose testcase elements are listed in document order).

\* The most testcase elements of a report.
MaxCases == 2

\* The child elements of a testcase that the status depends on.
ChildTags == {"failure", "error", "skipped"}

\* The time attributes of a testcase: seconds, or no number.
TimeStrings == {"1", "soon"}

\* A testcase element: its classname and time attributes and the tags of
\* its children; its name is its place in the report.
TestCases ==
    [classname : {"", "tests.test_login"}, time : TimeStrings,
     children : SUBSET ChildTags]

\* float(time_str), and 0.0 on ValueError
ExecTime(time_str) == IF time_str \in NumberLexemes THEN NumberOf(time_str) ELSE 0

\* case.find(tag) is not None
HasChild(case, tag) == tag \in case.children

\* StatusOf as it would be with the skipped child looked at first.
StatusOf_SkippedFirst(case) ==
    IF HasChild(case, "skipped") THEN "SKIPPED"
    ELSE IF HasChild(case, "failure") THEN "FAIL"
    ELSE IF HasChild(case, "error") THEN "FAIL"
    ELSE "PASS"

\* status of one testcase: a failure child, else an error child, else a
\* skipped child decides.
StatusOf(case) ==
    IF HasChild(case, "failure") THEN "FAIL"
    ELSE IF HasChild(case, "error") THEN "FAIL"
    ELSE IF HasChild(case, "skipped") THEN "SKIPPED"
    ELSE "PASS"

\* failure_details of one testcase: the message and text of the failure
\* child, else of the error child; kept for a FAIL only.
DetailsOf(case) ==
    LET failure_details ==
            IF HasChild(case, "failure") THEN "failure message and text"
            ELSE IF HasChild(case, "error") THEN "error message and text"
            ELSE ""
    IN  IF StatusOf(case) = "FAIL" THEN failure_details ELSE ""

\* The name attribute of the i-th testcase.
NameOf(i) == "test_" \o ToString(i)

\* parse_junit_to_results on a well-formed report: one record for each
\* testcase element (without its timestamp).
parse_junit_to_results(testcases) ==
    [i \in DOMAIN testcases |->
        [test_id |-> IF testcases[i].classname # ""
                     THEN testcases[i].classname \o "::" \o NameOf(i)
                     ELSE NameOf(i),
         name |-> NameOf(i),
         module |-> IF testcases[i].classname # "" THEN testcases[i].classname
                    ELSE "unknown",
         status |-> StatusOf(testcases[i]),
         execution_time |-> ExecTime(testcases[i].time),
         failure_details |-> DetailsOf(testcases[i])]]

\* The record execute returns in place of the results when the run or the
\* parse raised.
error_result(e) ==
    << [test_id |-> "executor.error", name |-> "ExecutorError", module |-> "executor",
        status |-> "FAIL", execution_time |-> 0, failure_details |-> e] >>

\* The reports of up to MaxCases testcase elements.
Reports == UNION {[1..n -> TestCases] : n \in 0..MaxCases}

\* The test runs: the suite directory missing; or pytest run with either
\* exit status, leaving no report, a malformed one, or a report.
TestRuns ==
    {[suite_dir |-> "missing", returncode |-> 0, junit |-> "absent", testcases |-> <<>>]}
    \cup {[suite_dir |-> "exists", returncode |-> rc, junit |-> j, testcases |-> <<>>] :
            rc \in {0, 1}, j \in {"absent", "malformed"}}
    \cup {[suite_dir |-> "exists", returncode |-> rc, junit |-> "report", testcases |-> t] :
            rc \in {0, 1}, t \in Reports}

\* One call of the executor on one test run.
InitJUnit ==
    /\ PipelineIdle
    /\ ExtractionIdle
    /\ StatisticsIdle
    /\ pytest \in TestRuns
    /\ normalized = NotNormalized

\* TestExecutorAgent.execute of run_tests.py.
NormalizeRun ==
    /\ normalized = NotNormalized
    /\ normalized' =
        IF pytest.suite_dir = "missing"
        THEN [outcome |-> "FileNotFoundError", results |-> <<>>]
        ELSE IF pytest.junit = "absent"
        THEN [outcome |-> "error", results |-> error_result("RuntimeError")]
        ELSE IF pytest.junit = "malformed"
        THEN [outcome |-> "error", results |-> error_result("ParseError")]
        ELSE [outcome |-> "ok", results |-> parse_junit_to_results(pytest.testcases)]
    /\ UNCHANGED <<pipeline, extraction, statistics, pytest>>

NextJUnit == NormalizeRun

SpecJUnit == InitJUnit /\ [][NextJUnit]_vars


\* ============================================================== statistics
\* The two statistics engines: analyze_results.py, which is given the
\* records of run_tests.py as a JSON text, and ResultAnalyzerAgent.analyze of
\* result_analyzer.py, which loads an execution report.

\* The most records given to a statistics engine.
MaxResults == 3

\* A quotient n / d that is not rounded.
Ratio(n, d) == [num |-> n, den |-> d]

\* a quotient < a whole number
RatioBelow(q, k) == q.num < k * q.den

\* round(n / d * 100, 2) in hundredths, and 0 when d = 0.  (Within the
\* bounds no quotient lies halfway between two hundredths.)
Percent2(n, d) == IF d > 0 THEN (2 * n * 10000 + d) \div (2 * d) ELSE 0

\* sum(f(x) for x in items)
RECURSIVE SumOver(_, _)
SumOver(items, i) ==
    IF i > Len(items) THEN 0 ELSE items[i] + SumOver(items, i + 1)

\* sum(1 for x in items if Holds(x))
CountIf(items, Holds(_)) == Cardinality({i \in DOMAIN items : Holds(items[i])})

\* The items of a list that pass a test, in their order.
Filter(items, Holds(_)) == SelectSeq(items, Holds)

\* A string of one lexeme, or the empty string.
Text(x) == IF x = "" THEN Str(<<>>) ELSE Str(<<x>>)

\* One record of run_tests.py as json.dumps sees it.
ResultJson(r) ==
    Dict(<< <<K("test_id"), Text(r.test_id)>>, <<K("name"), Text(r.name)>>,
            <<K("module"), Text(r.module)>>, <<K("status"), Text(r.status)>>,
            <<K("execution_time"), Num(r.execution_time)>>,
            <<K("failure_details"), Text(r.failure_details)>> >>)

\* raw_results = json.dumps(results) of run_tests.py
RawResultsOf(results) ==
    dumps(List([i \in DOMAIN results |-> ResultJson(results[i])]))

\* ------------------------------------------------------- analyze_results
\* The values of a field in their order of first appearance.
FirstSeen(items, key) ==
    LET first == {i \in DOMAIN items :
                    \A j \in 1..(i - 1) : Item(items[j], key) # Item(items[i], key)}
        RECURSIVE From(_)
        From(i) ==
            IF i > Len(items) THEN <<>>
            ELSE (IF i \in first THEN <<Item(items[i], key)>> ELSE <<>>) \o From(i + 1)
    IN  From(1)

\* Metrics as it would be if the skipped tests counted as executed.
Metrics_SkippedExecuted(tests) ==
    LET skipped == CountIf(tests, LAMBDA r : GetItem(r, K("status"), Null) = Text("SKIPPED"))
        executed == Len(tests)
        passed == CountIf(tests, LAMBDA r : GetItem(r, K("status"), Null) = Text("PASS"))
    IN  [total |-> Len(tests), skipped |-> skipped, executed |-> executed,
         passed |-> passed,
         pass_rate |-> IF executed > 0 THEN Ratio(passed * 100, executed)
                       ELSE Ratio(0, 1)]

\* The metrics of a list of results: of all of them, or of one module.
Metrics(tests) ==
    LET skipped == CountIf(tests, LAMBDA r : GetItem(r, K("status"), Null) = Text("SKIPPED"))
        executed == Len(tests) - skipped
        passed == CountIf(tests, LAMBDA r : GetItem(r, K("status"), Null) = Text("PASS"))
    IN  [total |-> Len(tests), skipped |-> skipped, executed |-> executed,
         passed |-> passed,
         pass_rate |-> IF executed > 0 THEN Ratio(passed * 100, executed)
                       ELSE Ratio(0, 1)]

\* analyze_results(raw_results_str), without the failure analysis.
analyze_results(raw_results_str) ==
    LET results == loads(raw_results_str).v.v
        all == Metrics(results)
        failed_tests == IF all.executed >= 0 THEN all.executed - all.passed ELSE 0
        avg_execution_time ==
            IF all.total > 0
            THEN Ratio(SumOver([i \in DOMAIN results |->
                                    Item(results[i], K("execution_time")).v[1]], 1),
                       all.total)
            ELSE Ratio(0, 1)
        modules == FirstSeen(results, K("module"))
        module_results ==
            [k \in DOMAIN modules |->
                LET m == Metrics(Filter(results,
                                        LAMBDA r : Item(r, K("module")) = modules[k]))
                IN  [module |-> modules[k].v, total |-> m.total, passed |-> m.passed,
                     failed |-> Max(m.executed - m.passed, 0), skipped |-> m.skipped,
                     pass_rate |-> m.pass_rate]]
        low == Filter(module_results, LAMBDA m : RatioBelow(m.pass_rate, 75))
        recommendations ==
            (IF RatioBelow(all.pass_rate, 90)
             THEN <<[advice |-> "Overall pass rate is below 90%", module |-> <<>>]>>
             ELSE <<>>)
            \o [k \in DOMAIN low |->
                    [advice |-> "Module has a low pass rate", module |-> low[k].module]]
    IN  IF loads(raw_results_str).ok /\ loads(raw_results_str).v.t = "list"
        THEN [outcome |-> "ok",
              summary |-> [total_tests |-> all.total, passed_tests |-> all.passed,
                           failed_tests |-> failed_tests,
                           skipped_tests |-> all.skipped, pass_rate |-> all.pass_rate,
                           avg_execution_time |-> avg_execution_time],
              module_results |-> module_results,
              recommendations |-> recommendations]
        ELSE [outcome |-> "error",
              summary |-> [total_tests |-> 0, passed_tests |-> 0, failed_tests |-> 0,
                           pass_rate |-> Ratio(0, 1),
                           avg_execution_time |-> Ratio(0, 1)]]

\* The test cases behind the records given to analyze_results: passed,
\* failed or skipped, in one of two modules.
AnalyzedCases ==
    [classname : {"", "tests.test_login"}, time : {"1"},
     children : {{}, {"failure"}, {"skipped"}}]

\* The texts run_tests.py hands on: the records of a report, or the one
\* record that stands for a failed run; and a text that is no JSON.
RawResults ==
    {RawResultsOf(parse_junit_to_results(t)) :
        t \in UNION {[1..n -> AnalyzedCases] : n \in 0..MaxResults}}
    \cup {RawResultsOf(error_result("RuntimeError")), <<"{">>}


\* ------------------------------------------------------ execution reports
\* Durations and percentages of an execution report are numbers of two
\* decimals; they are kept in hundredths.

\* round(n / d, 2) for n in hundredths, and 0 when d = 0.
Round(n, d) == IF d > 0 THEN (2 * n + d) \div (2 * d) ELSE 0

\* The result of _execute_single_test, with the fields the analysis reads.
ExecutionResult(test_id, module, priority, test_passed, execution_time) ==
    Dict(<< <<K("test_id"), Str(K(test_id))>>, <<K("module"), Str(K(module))>>,
            <<K("priority"), Str(K(priority))>>,
            <<K("status"), Str(K(IF test_passed THEN "PASSED" ELSE "FAILED"))>>,
            <<K("execution_time_seconds"), Num(execution_time)>> >>)

\* d[key] of a number
Number(d, key) == Item(d, K(key)).v[1]

\* The report TestExecutorAgent.execute builds from the results of its run.
ExecutionReport(results) ==
    LET total == Len(results)
        passed == CountIf(results, LAMBDA r : Item(r, K("status")) = Str(K("PASSED")))
        total_duration ==
            SumOver([i \in DOMAIN results |->
                        Number(results[i], "execution_time_seconds")], 1)
    IN  Dict(<< <<K("execution_id"), Str(K("EXEC"))>>,
                <<K("execution_results"), List(results)>>,
                <<K("summary"),
                  Dict(<< <<K("total_tests"), Num(total)>>,
                          <<K("passed"), Num(passed)>>,
                          <<K("failed"), Num(total - passed)>>,
                          <<K("pass_rate_percentage"), Num(Percent2(passed, total))>>,
                          <<K("total_execution_time_seconds"), Num(total_duration)>>,
                          <<K("average_execution_time_seconds"),
                            Num(Round(total_duration, total))>> >>)>> >>)

\* One record of the sample report.
SampleResult(test_id, status, module, category, priority, execution_time) ==
    Dict(<< <<K("test_id"), Str(K(test_id))>>, <<K("status"), Str(K(status))>>,
            <<K("module"), Str(K(module))>>, <<K("category"), Str(K(category))>>,
            <<K("priority"), Str(K(priority))>>,
            <<K("execution_time_seconds"), Num(execution_time)>> >>)

\* The report of create_sample_execution_report.
SampleReport ==
    Dict(<< <<K("execution_id"), Str(K("EXEC_20240115_140230_ABC123"))>>,
            <<K("summary"),
              Dict(<< <<K("total_tests"), Num(15)>>, <<K("passed"), Num(11)>>,
                      <<K("failed"), Num(4)>>, <<K("pass_rate"), Num(7333)>>,
                      <<K("total_execution_time_seconds"), Num(6750)>>,
                      <<K("average_execution_time_seconds"), Num(450)>> >>)>>,
            <<K("execution_results"),
              Dict(<< <<K("baseline_tests"),
                        List(<< SampleResult("FP-001", "PASSED", "Payments & Rewards",
                                             "Happy Path", "high", 320),
                                SampleResult("SEC-001", "FAILED", "Security",
                                             "Security", "high", 780),
                                SampleResult("VAL-001", "PASSED", "Validation",
                                             "Negative Path", "medium", 210) >>)>>,
                      <<K("ai_generated_tests"),
                        List(<< SampleResult("AI-SEC-001", "FAILED", "Security",
                                             "Security", "high", 850),
                                SampleResult("AI-PAY-001", "FAILED", "Payments & Rewards",
                                             "Edge Case", "medium", 630),
                                SampleResult("AI-SEC-002", "FAILED", "Security",
                                             "Security", "high", 920) >>)>> >>)>> >>)

\* The test cases of an execution: of high priority, which may take 6.0
\* seconds, or of medium priority, which take at most 5.0.
ExecutedCases ==
    {c \in [module : {"Security", "Payments"}, priority : {"high", "medium"},
            test_passed : BOOLEAN, execution_time : {200, 600}] :
        c.execution_time = IF c.priority = "high" THEN 600 ELSE 200}

\* A report that cannot be loaded.
Unreadable == [t |-> "unreadable", v |-> <<>>]

\* The reports given to ResultAnalyzerAgent.analyze: those of an execution of
\* one to MaxResults test cases, the sample report, and a file that is no
\* report.
ExecutionReports ==
    {ExecutionReport([i \in DOMAIN cases |->
                        ExecutionResult("TC-" \o Pad3(i), cases[i].module,
                                        cases[i].priority, cases[i].test_passed,
                                        cases[i].execution_time)]) :
        cases \in UNION {[1..n -> ExecutedCases] : n \in 1..MaxResults}}
    \cup {SampleReport, Unreadable}


\* -------------------------------------------------- _calculate_statistics
\* test.get("status") == status
HasStatus(test, status) == GetItem(test, K("status"), Null) = Str(K(status))

\* test.get("execution_time_seconds", 0)
TimeOf(test) == GetItem(test, K("execution_time_seconds"), Num(0)).v[1]

\* One entry of test_distribution.
Distribution(tests) ==
    LET passed == CountIf(tests, LAMBDA t : HasStatus(t, "PASSED"))
    IN  [total |-> Len(tests), passed |-> passed, failed |-> Len(tests) - passed]

\* One dimension of failure_analysis: a bucket for each value of the field,
\* in the order the values first appear.
Buckets(all_tests, key, default) ==
    LET of(i) == GetItem(all_tests[i], K(key), Str(K(default)))
        first == {i \in DOMAIN all_tests : \A j \in 1..(i - 1) : of(j) # of(i)}
        Bucket(k) ==
            LET total == Cardinality({i \in DOMAIN all_tests : of(i) = k})
                failed == Cardinality({i \in DOMAIN all_tests :
                                        of(i) = k /\ HasStatus(all_tests[i], "FAILED")})
            IN  [key |-> k, total |-> total, failed |-> failed,
                 failure_rate |-> Percent2(failed, total)]
        RECURSIVE From(_)
        From(i) ==
            IF i > Len(all_tests) THEN <<>>
            ELSE (IF i \in first THEN <<Bucket(of(i))>> ELSE <<>>) \o From(i + 1)
    IN  From(1)

\* sorted(all_tests, key=execution_time_seconds): ascending, and tests of
\* equal time in the order they came.
RECURSIVE sorted_by_time(_)
sorted_by_time(all_tests) ==
    IF all_tests = <<>> THEN <<>>
    ELSE LET n == Len(all_tests)
             before == sorted_by_time(SubSeq(all_tests, 1, n - 1))
             k == Cardinality({i \in DOMAIN before :
                                TimeOf(before[i]) <= TimeOf(all_tests[n])})
         IN  SubSeq(before, 1, k) \o <<all_tests[n]>>
                \o SubSeq(before, k + 1, Len(before))

\* {"test_id": ..., "time": ...} for each test
Timed(tests) ==
    [i \in DOMAIN tests |->
        [test_id |-> GetItem(tests[i], K("test_id"), Str(K("Unknown"))),
         time |-> TimeOf(tests[i])]]

\* _calculate_statistics(report)
calculate_statistics(report_value) ==
    LET summary == GetItem(report_value, K("summary"), Dict(<<>>))
        Summary(key) == GetItem(summary, K(key), Num(0)).v[1]
        execution_results ==
            GetItem(report_value, K("execution_results"), List(<<>>))
        baseline_results ==
            IF execution_results.t = "list" THEN <<>>
            ELSE GetItem(execution_results, K("baseline_tests"), List(<<>>)).v
        ai_results ==
            IF execution_results.t = "list" THEN execution_results.v
            ELSE GetItem(execution_results, K("ai_generated_tests"), List(<<>>)).v
        all_tests == baseline_results \o ai_results
        by_time == sorted_by_time(all_tests)
        total_time == SumOver([i \in DOMAIN all_tests |-> TimeOf(all_tests[i])], 1)
    IN  [overview |->
            [total_tests |-> Summary("total_tests"), passed |-> Summary("passed"),
             failed |-> Summary("failed"), pass_rate |-> Summary("pass_rate_percentage"),
             execution_duration |-> Summary("total_execution_time_seconds")],
         failure_analysis |->
            [by_module |-> Buckets(all_tests, "module", "Unknown"),
             by_category |-> Buckets(all_tests, "category", "Unknown"),
             by_priority |-> Buckets(all_tests, "priority", "medium")],
         performance_analysis |->
            [slowest_tests |->
                Timed(SubSeq(by_time, Max(Len(by_time) - 2, 1), Len(by_time))),
             fastest_tests |-> Timed(SubSeq(by_time, 1, Min(3, Len(by_time)))),
             average_execution_time |-> Round(total_time, Len(all_tests)),
             total_execution_time |-> total_time],
         test_distribution |->
            [baseline_tests |-> Distribution(baseline_results),
             ai_generated_tests |-> Distribution(ai_results)]]


\* ----------------------------------------------- _generate_fallback_insights
\* The module of the highest failure rate among those of more than one
\* failure, the first of them where rates tie; None when there is none.
RECURSIVE Worst(_, _, _, _)
Worst(by_module, i, worst_module, worst_rate) ==
    IF i > Len(by_module) THEN [module |-> worst_module, rate |-> worst_rate]
    ELSE IF by_module[i].failure_rate > worst_rate /\ by_module[i].failed > 1
         THEN Worst(by_module, i + 1, by_module[i].key, by_module[i].failure_rate)
         ELSE Worst(by_module, i + 1, worst_module, worst_rate)

\* A sentence said of a subject, with the number it quotes.
Sentence(words, subject, number) ==
    Str(<<words>> \o subject \o <<ToString(number)>>)

Monitoring ==
    Str(K("Continue monitoring test stability and address intermittent failures"))

\* _generate_fallback_insights(stats)
generate_fallback_insights(stats) ==
    LET worst == Worst(stats.failure_analysis.by_module, 1, Null, 0)
        slowest_tests == stats.performance_analysis.slowest_tests
        ai_tests == stats.test_distribution.ai_generated_tests
        by_category == stats.failure_analysis.by_category
        specific ==
            (IF ~Falsy(worst.module) /\ worst.rate > 3000
             THEN <<Sentence("Prioritize fixing module", worst.module.v, worst.rate)>>
             ELSE <<>>)
            \o (IF slowest_tests # <<>> /\ slowest_tests[1].time > 500
                THEN <<Sentence("Optimize test", slowest_tests[1].test_id.v,
                                slowest_tests[1].time)>>
                ELSE <<>>)
            \o (IF ai_tests.total > 0 /\ ai_tests.failed * 100 > 20 * ai_tests.total
                THEN <<Sentence("Review AI-generated tests", <<>>,
                                Round(ai_tests.failed * 1000, ai_tests.total))>>
                ELSE <<>>)
            \o (IF \E i \in DOMAIN by_category :
                        /\ by_category[i].key = Str(K("Security"))
                        /\ by_category[i].failure_rate > 2500
                THEN <<Str(K("Conduct security review - multiple security tests are failing"))>>
                ELSE <<>>)
        recommendations ==
            IF Len(specific) < 3 THEN Append(specific, Monitoring) ELSE specific
    IN  Dict(<< <<K("summary"),
                  Str(<<"Test execution completed",
                        ToString(stats.overview.pass_rate),
                        ToString(stats.overview.total_tests),
                        ToString(stats.overview.failed)>>)>>,
                <<K("critical_issue"),
                  IF ~Falsy(worst.module)
                  THEN Sentence("module showing failure rate", worst.module.v, worst.rate)
                  ELSE Str(K("No significant failure patterns detected"))>>,
                <<K("recommendations"),
                  List(SubSeq(recommendations, 1, Min(5, Len(recommendations))))>> >>)

\* ---------------------------------------------------- _generate_ai_insights
\* The part of the reply that is parsed.
json_part(text) ==
    IF Contains(text, JsonFence) THEN FencedJson(text)
    ELSE IF Contains(text, Fence) THEN SplitFence(text)[2]
    ELSE text

\* _generate_ai_insights as it would be if a failed call or an unparseable
\* reply gave an advisory without content in place of the rule-based one.
generate_ai_insights_NoFallback(stats, kickoff) ==
    IF kickoff.raises
    THEN Dict(<< <<K("summary"), Str(<<>>)>>, <<K("critical_issue"), Str(<<>>)>>,
                 <<K("recommendations"), List(<<>>)>> >>)
    ELSE IF loads(json_part(kickoff.text)).ok THEN loads(json_part(kickoff.text)).v
    ELSE Dict(<< <<K("summary"), Str(<<>>)>>, <<K("critical_issue"), Str(<<>>)>>,
                 <<K("recommendations"), List(<<>>)>> >>)

\* _generate_ai_insights(stats, report), given what crew.kickoff() did.
generate_ai_insights(stats, kickoff) ==
    IF kickoff.raises THEN generate_fallback_insights(stats)
    ELSE IF loads(json_part(kickoff.text)).ok THEN loads(json_part(kickoff.text)).v
    ELSE generate_fallback_insights(stats)

\* analyze(execution_report_path): the analysis summary, or the error of a
\* report that cannot be loaded, or the exception it ends with.
analyze(loaded, kickoff) ==
    LET stats == calculate_statistics(loaded)
        ai_insights == generate_ai_insights(stats, kickoff)
    IN  IF loaded = Unreadable THEN [outcome |-> "error"]
        ELSE IF ai_insights.t # "dict" THEN [outcome |-> "AttributeError"]
        ELSE [outcome |-> "ok",
              execution_id |-> GetItem(loaded, K("execution_id"), Str(K("Unknown"))),
              statistics |-> stats,
              ai_insights |-> ai_insights,
              recommendations |->
                  GetItem(ai_insights, K("recommendations"), List(<<>>))]

\* An advisory of the form the task asks for.
Advisory ==
    Dict(<< <<K("summary"), Str(K("Most tests pass"))>>,
            <<K("critical_issue"), Str(K("OTP verification"))>>,
            <<K("recommendations"),
              List(<<Str(K("Fix the OTP timeout")), Str(K("Add rate limiting")),
                     Str(K("Retest payments"))>>)>> >>)

\* What crew.kickoff() can do: raise, or reply with the advisory (bare or in
\* a code block), with an object that holds no recommendation, with JSON
\* that is no object, or with prose.
Kickoffs ==
    {[raises |-> TRUE, text |-> NoText]}
    \cup {[raises |-> FALSE, text |-> t] :
            t \in {dumps(Advisory),
                   <<"Here", "it", "is", JsonFence>> \o dumps(Advisory) \o <<Fence>>,
                   <<Fence>> \o dumps(Advisory) \o <<Fence, "Done">>,
                   dumps(Dict(<< <<K("summary"), Str(K("All good"))>> >>)),
                   dumps(Dict(<< <<K("summary"), Str(K("All good"))>>,
                                 <<K("recommendations"), List(<<>>)>> >>)),
                   dumps(List(<<Str(K("Fix the OTP timeout"))>>)),
                   <<"The", "tests", "look", "stable">>,
                   NoText}}


\* ------------------------------------------------------------ SpecStats
\* One call of a statistics engine on one input: a text of records for
\* analyze_results, or an execution report for ResultAnalyzerAgent.analyze.
InitStats ==
    /\ PipelineIdle
    /\ ExtractionIdle
    /\ NormalizerIdle
    /\ \/ raw_results \in RawResults /\ report = [t |-> "unset", v |-> <<>>]
       \/ raw_results = NoText /\ report \in ExecutionReports
    /\ analysis = NotAnalyzed
    /\ result_str = NoReply
    /\ analyzed = NotAnalyzed

\* ResultAnalyzerAgent.execute of analyze_results.py.
AnalyzeRawResults ==
    /\ report.t = "unset"
    /\ analysis = NotAnalyzed
    /\ analysis' = analyze_results(raw_results)
    /\ UNCHANGED <<pipeline, extraction, normalizer>>
    /\ UNCHANGED <<raw_results, report, result_str, analyzed>>

\* ResultAnalyzerAgent.analyze of result_analyzer.py, with what the
\* collaborator does when it is asked.
Analyze ==
    /\ report.t # "unset"
    /\ analyzed = NotAnalyzed
    /\ \E kickoff \in Kickoffs :
        /\ result_str' = IF report = Unreadable THEN NoReply ELSE kickoff
        /\ analyzed' = analyze(report, kickoff)
    /\ UNCHANGED <<pipeline, extraction, normalizer>>
    /\ UNCHANGED <<raw_results, report, analysis>>

NextStats ==
    \/ AnalyzeRawResults
    \/ Analyze

SpecStats == InitStats /\ [][NextStats]_vars


\* ================================================================ claims
Orchestrated == caller = "orchestrator"

\* Stage s was invoked in this run.
Called(s) == \E i \in DOMAIN events : events[i] = <<"call", s>>

\* Stage s returned a result without error descriptor in this run.
Succeeded(s) == \E i \in DOMAIN events : events[i] = <<"ok", s>>

\* The stage that produces the artifacts of a kind.
StageOfKind(k) ==
    CASE k = "gap_analysis" -> "gap_analysis"
      [] k = "generated_tests" -> "generation"
      [] k = "execution_report" -> "execution"
      [] k = "analysis_summary" -> "analysis"

\* The artifacts written (or written again) in the current run.
WrittenThisRun == {p \in DOMAIN fs : fs[p].run = run}

\* C1: once a stage has returned a result carrying an error descriptor, no
\* later stage is invoked in that run.
C1_NoStageAfterFailure ==
    Orchestrated =>
        \A i, j \in DOMAIN events :
            (i < j /\ events[i][1] = "error") => events[j][1] # "call"

\* C2: the stages invoked in a run are invoked in the order gap analysis,
\* generation, execution, analysis, each at most once, and a stage is invoked
\* only after the previous stage's call has returned.
C2_StagesInOrder ==
    Orchestrated =>
        \A i \in DOMAIN events :
            IF events[i][1] = "call"
            THEN /\ i > 1 => events[i - 1][1] \in {"ok", "error"}
                 /\ \A j \in 1..(i - 1) :
                        events[j][1] = "call" =>
                            StageIndex(events[j][2]) < StageIndex(events[i][2])
            ELSE i > 1 /\ events[i - 1] = <<"call", events[i][2]>>

C2_Witness ==
    /\ Orchestrated
    /\ Len(events) = 8
    /\ \A s \in {"gap_analysis", "generation", "execution", "analysis"} : Called(s)

\* C3: whenever stage k+1 is invoked, the output of the successful stage k is
\* already on disk as this run's artifact: the gap analysis before generation,
\* the generated tests before execution, the execution report before analysis
\* (also when the executor's own write was refused).
C3_ArtifactBeforeNextStage ==
    Orchestrated =>
        /\ (Called("generation") /\ gap_analysis # "error") =>
                \E t \in 0..MaxClock :
                    LET f == File(fs, <<OutputDir, "gap_analysis", t>>)
                    IN  f.body = gap_analysis /\ f.run = run
        /\ (Called("execution") /\ generated_tests \in {"tests", "notests"}) =>
                /\ File(fs, gen_file).body = generated_tests
                /\ File(fs, gen_file).run = run
        /\ Called("analysis") =>
                LET f == File(fs, <<OutputDir, "execution_report", execution_report.id>>)
                IN  f.body = "report" /\ f.run = run

C3_Witness ==
    /\ Orchestrated
    /\ Called("analysis")
    /\ <<"execution", "executor">> \in wfail

\* C4: a stage that fails persists no artifact: after the run, an artifact of
\* a kind was written in it only if the stage of that kind succeeded.
C4_FailedStageLeavesNoArtifact ==
    (Orchestrated /\ pc \in {"done", "raised"}) =>
        \A p \in WrittenThisRun : Succeeded(StageOfKind(p[2]))

\* C5: no artifact write targets a path that already holds an artifact.
C5_NoArtifactOverwritten ==
    \A p \in DOMAIN fs : fs[p].n <= 1

\* C6: a failed dashboard launch does not fail the pipeline: run_pipeline
\* returns the result set with the gap analysis, generated tests, execution
\* report and analysis summary it had before the launch attempt.
C6_DashboardFailureHarmless ==
    [][(pc = "p5" /\ pc' # "p5") =>
            /\ pc' = "done"
            /\ returned'.set
            /\ returned'.gap_analysis = gap_analysis
            /\ returned'.generated_tests = generated_tests
            /\ returned'.execution_report =
                    (IF execution_report.st = "unset"
                     THEN [st |-> "None", id |-> -1]
                     ELSE execution_report)
            /\ returned'.analysis_summary = analysis_summary]_vars

C6_Witness ==
    /\ pc = "done"
    /\ dash \in {"popen_raised", "browser_raised"}
    /\ returned.analysis_summary = "summary"

\* C7: an agent called with a required input key missing raises the
\* input-validation error at once: it has read no file, asked the
\* collaborator nothing and written no artifact.
C7_MissingInputRaisesFirst ==
    [][(/\ call.outcome = "running"
        /\ ~(call.required \subseteq call.keys)
        /\ call' # call) =>
            /\ call'.outcome = "ValueError"
            /\ call'.fx = {}
            /\ fs' = fs
            /\ pc' = "raised"]_vars

C7_Witness ==
    /\ call.agent = "generator"
    /\ call.outcome = "ValueError"
    /\ "gap_analysis" \notin call.keys

\* C8: every stage-level failure reaches the controller as a returned result
\* with an error descriptor, never as an exception out of the stage call.
C8_FailuresAreReturned ==
    Orchestrated =>
        \A i \in DOMAIN events : events[i][1] # "raise"

\* C9: after a run in which all four stages succeed, every stage artifact has
\* been written inside the configured output_dir.
C9_ArtifactsInOutputDir ==
    (/\ Orchestrated
     /\ pc = "done"
     /\ "output_dir" \in DOMAIN config
     /\ \A s \in {"gap_analysis", "generation", "execution", "analysis"} : Succeeded(s)) =>
        \A k \in Kinds :
            \E t \in 0..MaxClock : <<config.output_dir, k, t>> \in WrittenThisRun

\* C10: if persisting a stage's artifact fails, the stage is reported as
\* failed: the run ends there, or the stage's result carries an error.
C10_WriteFailureIsFatal ==
    Orchestrated =>
        \A w \in wfail :
            \/ pc = "raised"
            \/ (w[1] = "execution" /\ execution_report.st = "error")

\* ----------------------------------------------------- claims on extraction
\* execute has returned, and no validation was asked for.
Extracted == final_tests # NotReturned /\ ~validate_tests

\* json_content of execute after the clean-up.
JsonContent == CleanUp(Located(result_text))

\* The records of the returned dict; none when it has no list of that name.
ReturnedTests ==
    IF HasKey(final_tests, K("generated_tests"))
       /\ Item(final_tests, K("generated_tests")).t = "list"
    THEN Item(final_tests, K("generated_tests")).v
    ELSE <<>>

\* The reply (or its repair) did not parse: the records were harvested.
Harvested == ~loads(JsonContent).ok /\ ~loads(Fixed(JsonContent)).ok

\* The reply did not parse and its repair did.
Repaired == ~loads(JsonContent).ok /\ loads(Fixed(JsonContent)).ok

\* The returned tests are the fallback tests.
Synthetic ==
    \/ Falsy(Strategy3(JsonContent))
    \/ Generated(result_text) = create_fallback_tests(JsonContent)

\* The text with the commas before closing braces and brackets taken out.
WithoutTrailingCommas == DropCommaBefore(DropCommaBefore(JsonContent, "}"), "]")

\* Well-formed but for commas before closing braces or brackets.
TrailingCommaOnly == ~loads(JsonContent).ok /\ loads(WithoutTrailingCommas).ok

\* The most occurrences of one of the field patterns that give a record.
Occurrences ==
    Max(Len(FindAll(JsonContent, 1, "test_id")),
        Max(Len(FindAll(JsonContent, 1, "module")),
            Len(FindAll(JsonContent, 1, "scenario"))))

\* The returned dict says how its tests were obtained.
HasProvenance ==
    /\ HasKey(final_tests, K("test_summary"))
    /\ Item(final_tests, K("test_summary")).t = "dict"
    /\ \/ HasKey(Item(final_tests, K("test_summary")), K("extraction_method"))
       \/ HasKey(Item(final_tests, K("test_summary")), K("fallback_reason"))

\* C11: whatever the reply text (the empty string and an object whose record
\* list is empty included), the extraction returns at least one record in
\* generated_tests.
C11_ExtractionNeverEmpty ==
    Extracted => Len(ReturnedTests) >= 1

\* C12: when the records are harvested from a text that does not parse and
\* holds three or more occurrences of a field pattern, as many records are
\* returned as occurrences were found: three for three occurrences.
C12_HarvestedCountIsOccurrences ==
    (Extracted /\ Harvested /\ Occurrences >= 3) => Len(ReturnedTests) = Occurrences

\* C13: a text that is a well-formed object but for a comma before a closing
\* brace or bracket is repaired and parsed into the records it denotes,
\* whatever its string values hold.
C13_TrailingCommaRepaired ==
    (Extracted /\ TrailingCommaOnly) =>
        /\ Repaired
        /\ final_tests =
              WithMetadata(Structured(loads(WithoutTrailingCommas).v, JsonContent))

\* C14: a returned result that was repaired, harvested or synthetic says so
\* in a provenance marker, with validation and without.
C14_ProvenanceKept ==
    (final_tests # NotReturned /\ (Repaired \/ Harvested \/ Synthetic)) =>
        HasProvenance


\* ------------------------------------------------ claims on the normalizer
\* The run failed: execute raised, or returned an error descriptor.
NormalizationFailed == normalized.outcome \notin {"none", "ok"}

\* C15: a report with N testcase elements gives exactly N records, each with
\* status FAIL when the testcase has a failure or error child (a skipped
\* child besides or not), SKIPPED when it has a skipped child only, PASS
\* otherwise.
C15_OneRecordPerTestcase ==
    normalized.outcome = "ok" =>
        /\ Len(normalized.results) = Len(pytest.testcases)
        /\ \A i \in DOMAIN pytest.testcases :
            normalized.results[i].status =
                (IF pytest.testcases[i].children \cap {"failure", "error"} # {}
                 THEN "FAIL"
                 ELSE IF pytest.testcases[i].children = {"skipped"} THEN "SKIPPED"
                 ELSE "PASS")

C15_Witness ==
    /\ normalized.outcome = "ok"
    /\ Len(normalized.results) = 2
    /\ pytest.testcases[1].children = {"failure", "skipped"}
    /\ pytest.testcases[2].children = {"skipped"}
    /\ normalized.results[1].status = "FAIL"
    /\ normalized.results[2].status = "SKIPPED"

\* C16: the normalization fails exactly when the test run left no report
\* file: not for a nonzero exit status, and not for any other reason, such
\* as a report file that is not well-formed.
C16_FailsOnlyWithoutReport ==
    normalized.outcome # "none" =>
        (NormalizationFailed <=> pytest.junit = "absent")


\* ------------------------------------------------ claims on the statistics
\* The records given to analyze_results.
GivenResults == loads(raw_results).v.v

\* The number of given records with a status.
WithStatus(status) ==
    CountIf(GivenResults, LAMBDA r : Item(r, K("status")) = Text(status))

\* The records of the execution report, whichever form it has.
ReportRecords ==
    LET execution_results == GetItem(report, K("execution_results"), List(<<>>))
    IN  IF execution_results.t = "list" THEN execution_results.v
        ELSE GetItem(execution_results, K("baseline_tests"), List(<<>>)).v
                \o GetItem(execution_results, K("ai_generated_tests"), List(<<>>)).v

\* C17: for every list of records the overview has a pass rate between 0 and
\* 100, and passed + failed = executed, where executed = total - skipped (an
\* execution report has no skipped records).
C17_OverviewConsistent ==
    /\ analysis.outcome = "ok" =>
        /\ 0 <= analysis.summary.pass_rate.num
        /\ analysis.summary.pass_rate.num <= 100 * analysis.summary.pass_rate.den
        /\ analysis.summary.passed_tests + analysis.summary.failed_tests =
              analysis.summary.total_tests - analysis.summary.skipped_tests
    /\ analyzed.outcome = "ok" =>
        /\ analyzed.statistics.overview.pass_rate \in 0..10000
        /\ analyzed.statistics.overview.passed + analyzed.statistics.overview.failed =
              analyzed.statistics.overview.total_tests

C17_Witness ==
    /\ analysis.outcome = "ok"
    /\ analysis.summary.total_tests = 3
    /\ analysis.summary.skipped_tests = 1
    /\ analysis.summary.passed_tests = 1
    /\ analysis.summary.failed_tests = 1

\* C18: the overview is counted from the records: total, skipped, executed =
\* total - skipped, passed and failed by status, and pass_rate =
\* passed / executed * 100 rounded to two decimals (0 when nothing was
\* executed).
C18_OverviewFromRecords ==
    /\ analysis.outcome = "ok" =>
        /\ analysis.summary.total_tests = Len(GivenResults)
        /\ analysis.summary.skipped_tests = WithStatus("SKIPPED")
        /\ analysis.summary.passed_tests = WithStatus("PASS")
        /\ analysis.summary.failed_tests = WithStatus("FAIL") + WithStatus("ERROR")
        /\ analysis.summary.pass_rate.num * 100 =
              Percent2(WithStatus("PASS"), Len(GivenResults) - WithStatus("SKIPPED"))
                * analysis.summary.pass_rate.den
    /\ analyzed.outcome = "ok" =>
        LET passed == CountIf(ReportRecords, LAMBDA t : HasStatus(t, "PASSED"))
            failed == CountIf(ReportRecords, LAMBDA t : HasStatus(t, "FAILED"))
        IN  /\ analyzed.statistics.overview.total_tests = Len(ReportRecords)
            /\ analyzed.statistics.overview.passed = passed
            /\ analyzed.statistics.overview.failed = failed
            /\ analyzed.statistics.overview.pass_rate =
                  Percent2(passed, Len(ReportRecords))


\* The sum of total over the buckets of a dimension.
BucketTotal(buckets) == SumOver([i \in DOMAIN buckets |-> buckets[i].total], 1)

\* C19: for every execution report, the totals of the by_priority buckets
\* add up to overview.total_tests.
C19_PriorityTotalsAddUp ==
    analyzed.outcome = "ok" =>
        BucketTotal(analyzed.statistics.failure_analysis.by_priority) =
            analyzed.statistics.overview.total_tests

\* C20: every analysis run that returns an analysis summary has a non-empty
\* list of recommendations, whatever the collaborator does.
C20_RecommendationsNeverEmpty ==
    /\ analyzed.outcome = "ok" =>
        /\ analyzed.recommendations.t = "list"
        /\ analyzed.recommendations.v # <<>>
    /\ analysis.outcome = "ok" => analysis.recommendations # <<>>


\* The collaborator was not available: its call raised, or its reply holds
\* no JSON.
Unavailable ==
    result_str.raises \/ ~loads(json_part(result_str.text)).ok

\* The statistics of the report breach none of the thresholds of the rules:
\* no module fails more than 30%, no test takes more than 5.0 seconds, the
\* AI-generated tests fail no more than 20%, the Security category no more
\* than 25%.
NoThresholdBreached ==
    LET failure_analysis == analyzed.statistics.failure_analysis
        ai_tests == analyzed.statistics.test_distribution.ai_generated_tests
    IN  /\ \A i \in DOMAIN failure_analysis.by_module :
                failure_analysis.by_module[i].failure_rate <= 3000
        /\ \A i \in DOMAIN ReportRecords : TimeOf(ReportRecords[i]) <= 500
        /\ ai_tests.failed * 100 <= 20 * ai_tests.total
        /\ \A i \in DOMAIN failure_analysis.by_category :
                failure_analysis.by_category[i].key = Str(K("Security"))
                    => failure_analysis.by_category[i].failure_rate <= 2500

Conforming(value) ==
    /\ value.t = "dict"
    /\ \A key \in {"summary", "critical_issue"} :
            HasKey(value, K(key)) /\ Item(value, K(key)).t = "str"
    /\ HasKey(value, K("recommendations"))
    /\ Item(value, K("recommendations")).t = "list"
    /\ \A i \in DOMAIN Item(value, K("recommendations")).v :
            Item(value, K("recommendations")).v[i].t = "str"

\* The collaborator replied, and its reply holds a conforming advisory.
ReplyConforms ==
    /\ ~result_str.raises
    /\ loads(json_part(result_str.text)).ok
    /\ Conforming(loads(json_part(result_str.text)).v)

\* C22: when the call of the collaborator raises or its reply holds no
\* conforming advisory, the insights of the analysis are those of the
\* rule-based generator for the same statistics.
C22_FallbackUnlessConforming ==
    (analyzed.outcome # "none" /\ report # Unreadable /\ ~ReplyConforms) =>
        /\ analyzed.outcome = "ok"
        /\ analyzed.ai_insights =
              generate_fallback_insights(calculate_statistics(report))


\* The report with its records in another order.
Reordered(p) ==
    SetItem(report, K("execution_results"),
            List([i \in DOMAIN ReportRecords |-> ReportRecords[p[i]]]))

\* Two statistics and the rule-based advisories derived from them agree: the
\* same buckets in each dimension, the same fastest and slowest lists, the
\* same average and total duration, the same critical issue and
\* recommendations.
SameStatistics(s, t) ==
    /\ \A d \in {"by_module", "by_category", "by_priority"} :
            {s.failure_analysis[d][i] : i \in DOMAIN s.failure_analysis[d]} =
            {t.failure_analysis[d][i] : i \in DOMAIN t.failure_analysis[d]}
    /\ s.performance_analysis = t.performance_analysis
    /\ Item(generate_fallback_insights(s), K("critical_issue")) =
            Item(generate_fallback_insights(t), K("critical_issue"))
    /\ Item(generate_fallback_insights(s), K("recommendations")) =
            Item(generate_fallback_insights(t), K("recommendations"))

\* C23: the statistics of a report and the rule-based advisory derived from
\* them do not depend on the order of the records of the report.
C23_OrderInvariant ==
    (analyzed.outcome = "ok"
        /\ GetItem(report, K("execution_results"), List(<<>>)).t = "list") =>
        \A p \in Permutations(DOMAIN ReportRecords) :
            SameStatistics(analyzed.statistics,
                           calculate_statistics(Reordered(p)))


\* The rule-based generator ran: the collaborator was unavailable.
RulesRan == analyzed.outcome = "ok" /\ Unavailable

\* A record of the longest duration in the report.
Slowest(i) ==
    \A j \in DOMAIN ReportRecords : TimeOf(ReportRecords[j]) <= TimeOf(ReportRecords[i])

\* The advice to optimize a test is given for record i.
OptimizeAdvised(i) ==
    \E k \in DOMAIN analyzed.recommendations.v :
        analyzed.recommendations.v[k] =
            Str(<<"Optimize test">>
                    \o GetItem(ReportRecords[i], K("test_id"), Str(K("Unknown"))).v
                    \o <<ToString(TimeOf(ReportRecords[i]))>>)

\* C27: when the rule-based generator runs on a report of at least one
\* record, it advises to optimize a test exactly when the longest duration
\* exceeds 5.0 seconds, and the test it names is one of that duration.
C27_SlowestFlagged ==
    (RulesRan /\ ReportRecords # <<>>) =>
        /\ (\E i \in DOMAIN ReportRecords : OptimizeAdvised(i)) <=>
                (\E i \in DOMAIN ReportRecords : TimeOf(ReportRecords[i]) > 500)
        /\ \A i \in DOMAIN ReportRecords : OptimizeAdvised(i) => Slowest(i)


\* Bucket i has the highest failure rate of the module buckets.
WorstBucket(i) ==
    LET by_module == analyzed.statistics.failure_analysis.by_module
    IN  \A j \in DOMAIN by_module :
            by_module[j].failure_rate <= by_module[i].failure_rate

\* The advice to prioritize a module is given for bucket i.
PrioritizeAdvised(i) ==
    LET by_module == analyzed.statistics.failure_analysis.by_module
    IN  \E k \in DOMAIN analyzed.recommendations.v :
            analyzed.recommendations.v[k] =
                Str(<<"Prioritize fixing module">> \o by_module[i].key.v
                        \o <<ToString(by_module[i].failure_rate)>>)

\* C28: when the rule-based generator runs and the highest failure rate of
\* the module buckets exceeds 30%, a module of that rate is named in the
\* advice to prioritize, however many of its records failed.
C28_WorstModuleFlagged ==
    RulesRan =>
        LET by_module == analyzed.statistics.failure_analysis.by_module
        IN  (\E i \in DOMAIN by_module : by_module[i].failure_rate > 3000) =>
                \E i \in DOMAIN by_module : WorstBucket(i) /\ PrioritizeAdvised(i)


\* ------------------------------------------- claims on the recovery chain
\* The records a parsed value holds: its generated_tests, the list it is,
\* or the first list of tests in it; none otherwise.
Records(value) ==
    LET d == Wrapped(value)
        lists == {i \in DOMAIN d.v : IsTestList(d.v[i][2])}
    IN  IF HasKey(d, K("generated_tests"))
        THEN (IF Item(d, K("generated_tests")).t = "list"
              THEN Item(d, K("generated_tests")).v ELSE <<>>)
        ELSE IF lists # {}
             THEN d.v[CHOOSE i \in lists : \A j \in lists : i <= j][2].v
             ELSE <<>>

\* The records a text parses to; none when it does not parse.
ParsedRecords(text) == IF loads(text).ok THEN Records(loads(text).v) ELSE <<>>

\* The interior of the fenced block of the reply, or nothing.
FencedCandidate ==
    IF Contains(result_text, JsonFence) THEN FencedJson(result_text)
    ELSE IF HasFence(result_text) THEN FirstJsonBlock(result_text)
    ELSE NoText

\* What each recovery strategy yields for the reply, in the order of the
\* strategies: fenced block, brace scan, direct parse, repair, harvesting,
\* synthetic fallback.  No records means the strategy failed.
Strategies ==
    << ParsedRecords(CleanUp(FencedCandidate)),
       ParsedRecords(CleanUp(BraceBlock(result_text))),
       ParsedRecords(CleanUp(result_text)),
       ParsedRecords(Fixed(JsonContent)),
       Records(extract_structured_data(JsonContent)),
       Records(create_fallback_tests(JsonContent)) >>

\* The yield of the first strategy that succeeds.
FirstSuccess ==
    LET succeed == {i \in DOMAIN Strategies : Strategies[i] # <<>>}
    IN  IF succeed = {} THEN <<>>
        ELSE Strategies[CHOOSE i \in succeed : \A j \in succeed : i <= j]

\* C24: the strategies are tried in their order, each only when every
\* earlier one yielded no records, and the records returned are those of
\* the first strategy that yields some.
C24_FirstSuccessDetermines ==
    Extracted => ReturnedTests = FirstSuccess


\* The running depth after the lexemes a..b of the reply: +1 on an opening
\* brace, -1 on a closing one.
Depth(a, b) ==
    Cardinality({k \in a..b : result_text[k] = "{"})
        - Cardinality({k \in a..b : result_text[k] = "}"})

\* The positions after the first opening brace at which the depth is back
\* at zero.
DepthZero ==
    {e \in Find(result_text, "{")..Len(result_text) :
        Depth(Find(result_text, "{"), e) = 0}

\* The candidate object of the brace scan: from the first opening brace to
\* the first position at which the depth is back at zero; none when it never
\* is.
ScanCandidate ==
    IF DepthZero = {} THEN NoText
    ELSE SubSeq(result_text, Find(result_text, "{"),
                CHOOSE e \in DepthZero : \A f \in DepthZero : e <= f)

\* The reply holds an opening brace and no fence mark.
Scanned == Extracted /\ ~HasFence(result_text) /\ Contains(result_text, "{")

\* C25: for a reply without fence marks that holds an opening brace, what is
\* parsed is the candidate of the brace scan, which ends where the depth
\* first returns to zero and not at the last closing brace; when the depth
\* never returns to zero there is no candidate: the generator parses the
\* whole reply, the gap analyzer has nothing to parse.
C25_BraceScanCandidate ==
    /\ Scanned =>
        LET content == CleanUp(IF ScanCandidate = NoText THEN result_text
                               ELSE ScanCandidate)
        IN  /\ JsonContent = content
            /\ final_tests = WithMetadata(Structured(Strategy4(content), content))
    /\ (parsed_result # NotReturned /\ ~HasFence(result_text)
            /\ Contains(result_text, "{")) =>
        parsed_result =
            IF ScanCandidate # NoText /\ loads(ScanCandidate).ok
            THEN loads(ScanCandidate).v
            ELSE fallback_gap_analysis(result_text)


\* execute returned what _create_fallback_tests made of the reply.
FellBack ==
    /\ Extracted
    /\ final_tests = WithMetadata(create_fallback_tests(JsonContent))

\* C26: whatever the text handed to it (empty, without patterns, or holding
\* test ids, modules or scenarios), the synthetic fallback returns exactly 30
\* records and says total_tests 30 in its summary.
C26_FallbackHasThirtyRecords ==
    FellBack =>
        /\ Len(ReturnedTests) = 30
        /\ Item(Item(final_tests, K("test_summary")), K("total_tests")) = Num(30)


\* The i-th record harvesting makes of a text: each field from its i-th
\* occurrence in the text, or the default when the text has fewer.
HarvestedRecord(i) ==
    LET test_ids == FindAll(JsonContent, 1, "test_id")
        modules == FindAll(JsonContent, 1, "module")
        scenarios == FindAll(JsonContent, 1, "scenario")
    IN  /\ Item(ReturnedTests[i], K("test_id")) =
              Str(IF i <= Len(test_ids) THEN test_ids[i] ELSE K("TC-AI-" \o Pad3(i)))
        /\ Item(ReturnedTests[i], K("module")) =
              Str(IF i <= Len(modules) THEN modules[i] ELSE <<"Banking", "System">>)
        /\ Item(ReturnedTests[i], K("scenario")) =
              Str(IF i <= Len(scenarios) THEN scenarios[i]
                  ELSE <<"Banking", "test", "scenario", ToString(i)>>)

\* C29: when neither the text nor its repair parses, field harvesting returns
\* min(30, max(10, occurrences of test_id, of module, of scenario)) records,
\* the missing fields filled with defaults; so the result is never empty and
\* is never the synthetic fallback's.
C29_HarvestingPadsToTen ==
    (Extracted /\ Harvested) =>
        /\ Len(ReturnedTests) = Min(30, Max(10, Occurrences))
        /\ \A i \in DOMAIN ReturnedTests : HarvestedRecord(i)
        /\ ReturnedTests # <<>>
        /\ ~Falsy(Strategy3(JsonContent))
        /\ \A i \in DOMAIN ReturnedTests :
              Item(ReturnedTests[i], K("category")) = Str(K("extracted_tests"))

\* A text with more than ten occurrences was harvested, the module of each
\* record being the default.
C29_Witness ==
    /\ Extracted
    /\ Harvested
    /\ Occurrences > 10
    /\ Len(ReturnedTests) = Occurrences
    /\ Item(ReturnedTests[Occurrences], K("module")) = Str(<<"Banking", "System">>)


\* --------------------------------------------- claims on the analysis stage
\* The result analyzer was called in this run.
AnalysisInvoked == Called("analysis")

\* The result analyzer is, or was last, at work on a report file.
ReadsReport == call.agent = "result_analyzer"

\* C30: run_pipeline calls the result analysis only in a run in which the
\* generated tests file exists and the execution was called and returned a
\* report without error, and the report it is given was written in that run.
\* In every other run no execution report is read, the result returned has
\* no analysis summary, and it has no execution report when the execution
\* was skipped.
C30_AnalysisOnlyAfterExecution ==
    Orchestrated =>
        /\ AnalysisInvoked =>
              /\ Exists(fs, gen_file)
              /\ Called("execution")
              /\ Succeeded("execution")
              /\ execution_report.st = "ok"
              /\ ReadsReport
              /\ File(fs, inputs.execution_report_path) =
                    [body |-> "report", run |-> run, n |-> File(fs, inputs.execution_report_path).n]
        /\ ~AnalysisInvoked =>
              /\ ~ReadsReport
              /\ analysis_summary = "None"
              /\ returned.set => returned.analysis_summary = "None"
        /\ (returned.set /\ ~Called("execution")) =>
              /\ returned.execution_report = [st |-> "None", id |-> -1]
              /\ returned.analysis_summary = "None"

\* A run whose generator left no file has returned: the execution and the
\* analysis were skipped.
C30_Witness ==
    /\ Orchestrated
    /\ returned.set
    /\ Called("generation")
    /\ ~Exists(fs, gen_file)
    /\ ~Called("execution")
    /\ ~AnalysisInvoked
    /\ returned.execution_report.st = "None"
    /\ returned.analysis_summary = "None"

====
